---- MODULE Spec2Model ----
(***************************************************************************)
(* libvecpf: the vector printf extension (src/vecpf.c, src/vecpf.h).       *)
(*                                                                         *)
(* The library registers a vector argument type, six size modifiers and    *)
(* fifteen conversion characters with the host's printf, and formats a     *)
(* 16-byte vector element by element through the host's scalar printf.     *)
(*                                                                         *)
(* Characters are their ASCII codes, strings are sequences of codes.  The  *)
(* stream written by a callback is kept as the log of the fprintf/fputs    *)
(* calls it made; the text of the stream is that log rendered by the model *)
(* of the host's scalar formatter (HostFprintf).                           *)
(***************************************************************************)
EXTENDS Integers, Sequences, FiniteSets, TLC

(***************************************************************************)
(* Bounds of the model.                                                    *)
(***************************************************************************)
\* modifiers other libraries registered with the host before this one
MaxPriorMods == 1
\* the vectors a request may carry are TestVector(1) .. TestVector(NumVecs)
NumVecs == 2
\* a request's field width is 0 (absent) or MaxWidth
MaxWidth == 6
\* a request's precision is -1 (absent), 0 or MaxPrec
MaxPrec == 3
\* threads calling printf at the same time
NumThreads == 2

(***************************************************************************)
(* Program constants.                                                      *)
(***************************************************************************)
FMT_STR_MAXLEN == 64
LIBVECTOR_VECTOR_WIDTH_BYTES == 16
VDT_unsigned_int == 0
VDT_signed_int == 1
VDT_unsigned_short == 2
VDT_signed_short == 3
VDT_unsigned_char == 4
VDT_signed_char == 5
VDT_float == 6
VDT_double == 7
\* (unsigned short) -1, the initializer of vector_mods[i].bits
BITS_PLACEHOLDER == 65535
\* width of the bits field (unsigned short) and of printf_info.user
USER_BITS == 16

(***************************************************************************)
(* Characters.                                                             *)
(***************************************************************************)
Ord ==
  [c \in {"%", "#", " ", "-", "+", "'", "0", "*", ".", "h", "l", "x", "X",
          "d", "i", "o", "u", "c", "f", "F", "e", "E", "g", "G", "a", "A",
          "z", "v"} |->
     CASE c = "%" -> 37 [] c = "#" -> 35 [] c = " " -> 32 [] c = "-" -> 45
       [] c = "+" -> 43 [] c = "'" -> 39 [] c = "0" -> 48 [] c = "*" -> 42
       [] c = "." -> 46 [] c = "h" -> 104 [] c = "l" -> 108 [] c = "x" -> 120
       [] c = "X" -> 88 [] c = "d" -> 100 [] c = "i" -> 105 [] c = "o" -> 111
       [] c = "u" -> 117 [] c = "c" -> 99 [] c = "f" -> 102 [] c = "F" -> 70
       [] c = "e" -> 101 [] c = "E" -> 69 [] c = "g" -> 103 [] c = "G" -> 71
       [] c = "a" -> 97 [] c = "A" -> 65 [] c = "z" -> 122 [] c = "v" -> 118]

\* a C string literal, given as a tuple of one-character strings
Str(s) == [k \in 1..Len(s) |-> Ord[s[k]]]

IntConvs == {Ord["d"], Ord["i"], Ord["o"], Ord["u"], Ord["x"], Ord["X"]}
FpConvs == {Ord["f"], Ord["F"], Ord["e"], Ord["E"], Ord["g"], Ord["G"],
            Ord["a"], Ord["A"]}

(***************************************************************************)
(* Bit operations on unsigned values.                                      *)
(***************************************************************************)
RECURSIVE BitAnd(_, _)
BitAnd(a, b) ==
  IF a = 0 \/ b = 0 THEN 0
  ELSE ((a % 2) * (b % 2)) + 2 * BitAnd(a \div 2, b \div 2)

RECURSIVE Pow2(_)
Pow2(n) == IF n = 0 THEN 1 ELSE 2 * Pow2(n - 1)

(***************************************************************************)
(* The static tables.                                                      *)
(***************************************************************************)
\* vector_mods[].modifier_string, in table order (C index = position - 1)
modifier_strings ==
  << Str(<<"v","l">>), Str(<<"l","v">>), Str(<<"v","h">>), Str(<<"h","v">>),
     Str(<<"v">>), Str(<<"v","v">>) >>

vector_mods_len == Len(modifier_strings)

Rec(sp, bi, ms, es, dt) ==
  [spec |-> Ord[sp], bits_index |-> bi, mod_and_spec |-> Str(ms),
   element_size |-> es, data_type |-> dt]

\* the rows of int_types_table, lines 158-198
int_types_rows ==
  <<
     Rec("d", 0, <<"d">>, 4, VDT_signed_int),
     Rec("d", 1, <<"d">>, 4, VDT_signed_int),
     Rec("d", 2, <<"h","d">>, 2, VDT_signed_short),
     Rec("d", 3, <<"h","d">>, 2, VDT_signed_short),
     Rec("d", 4, <<"h","h","d">>, 1, VDT_signed_char),

     Rec("i", 0, <<"i">>, 4, VDT_signed_int),
     Rec("i", 1, <<"i">>, 4, VDT_signed_int),
     Rec("i", 2, <<"h","i">>, 2, VDT_signed_short),
     Rec("i", 3, <<"h","i">>, 2, VDT_signed_short),
     Rec("i", 4, <<"h","h","i">>, 1, VDT_signed_char),

     Rec("o", 0, <<"o">>, 4, VDT_unsigned_int),
     Rec("o", 1, <<"o">>, 4, VDT_unsigned_int),
     Rec("o", 2, <<"h","o">>, 2, VDT_unsigned_short),
     Rec("o", 3, <<"h","o">>, 2, VDT_unsigned_short),
     Rec("o", 4, <<"h","h","o">>, 1, VDT_unsigned_char),

     Rec("u", 0, <<"u">>, 4, VDT_unsigned_int),
     Rec("u", 1, <<"u">>, 4, VDT_unsigned_int),
     Rec("u", 2, <<"h","u">>, 2, VDT_unsigned_short),
     Rec("u", 3, <<"h","u">>, 2, VDT_unsigned_short),
     Rec("u", 4, <<"h","h","u">>, 1, VDT_unsigned_char),

     Rec("x", 0, <<"x">>, 4, VDT_unsigned_int),
     Rec("x", 1, <<"x">>, 4, VDT_unsigned_int),
     Rec("x", 2, <<"h","x">>, 2, VDT_unsigned_short),
     Rec("x", 3, <<"h","x">>, 2, VDT_unsigned_short),
     Rec("x", 4, <<"h","h","x">>, 1, VDT_unsigned_char),

     Rec("X", 0, <<"X">>, 4, VDT_unsigned_int),
     Rec("X", 1, <<"X">>, 4, VDT_unsigned_int),
     Rec("X", 2, <<"h","X">>, 2, VDT_unsigned_short),
     Rec("X", 3, <<"h","X">>, 2, VDT_unsigned_short),
     Rec("X", 4, <<"h","h","X">>, 1, VDT_unsigned_char),

     Rec("c", 4, <<"c">>, 1, VDT_unsigned_char) >>

\* int_types_table with the lv row of d given the halfword payload
int_types_table_alias_conflict ==
  [int_types_rows EXCEPT ![2] = Rec("d", 1, <<"h","d">>, 2, VDT_signed_short)]

\* int_types_table with a second, word-sized row for (o, v)
int_types_table_second_row ==
  Append(int_types_rows, Rec("o", 4, <<"o">>, 4, VDT_unsigned_int))

\* the integer table with the c row moved to the front
int_types_table_c_first ==
  << int_types_rows[Len(int_types_rows)] >>
    \o SubSeq(int_types_rows, 1, Len(int_types_rows) - 1)

int_types_table == int_types_rows

int_types_table_len == Len(int_types_table)

\* the rows of fp_types_table, lines 202-219
fp_types_rows ==
  << Rec("f", 4, <<"f">>, 4, VDT_float),
     Rec("e", 4, <<"e">>, 4, VDT_float),
     Rec("E", 4, <<"E">>, 4, VDT_float),
     Rec("g", 4, <<"g">>, 4, VDT_float),
     Rec("G", 4, <<"G">>, 4, VDT_float),
     Rec("a", 4, <<"a">>, 4, VDT_float),
     Rec("A", 4, <<"A">>, 4, VDT_float),
     Rec("f", 5, <<"f">>, 8, VDT_double),
     Rec("e", 5, <<"e">>, 8, VDT_double),
     Rec("E", 5, <<"E">>, 8, VDT_double),
     Rec("g", 5, <<"g">>, 8, VDT_double),
     Rec("G", 5, <<"G">>, 8, VDT_double),
     Rec("a", 5, <<"a">>, 8, VDT_double),
     Rec("A", 5, <<"A">>, 8, VDT_double) >>

fp_types_table == fp_types_rows

fp_types_table_len == Len(fp_types_table)

(***************************************************************************)
(* State.                                                                  *)
(***************************************************************************)
VARIABLES
  little_endian,       \* the platform's byte order (__LITTLE_ENDIAN__)
  printf_argtype_vec,  \* static int printf_argtype_vec
  vector_mods,         \* vector_mods[i].bits, position i + 1
  reg_pc,              \* position in __register_printf_vec
  host_next_bit,       \* host: index of the next free modifier bit
  host_modifiers,      \* host: registered modifiers, [str, bit]
  host_types,          \* host: registered argument-copy callbacks
  host_specifiers,     \* host: registered [spec, fn, arginfo] triples
  call,                \* the callback invocation in progress, or idle
  writes,              \* what that invocation wrote to its stream
  threads              \* per thread: the locals and stream of its callback

vars ==
  << little_endian, printf_argtype_vec, vector_mods, reg_pc, host_next_bit,
     host_modifiers, host_types, host_specifiers, call, writes, threads >>

(***************************************************************************)
(* Element extraction: the union vp_u_t over the 16-byte image.            *)
(***************************************************************************)
Reverse(s) == [k \in 1..Len(s) |-> s[Len(s) + 1 - k]]

\* element i read as if the platform were big-endian whatever it is
ElemBytes_memory_order(vec, size, i) ==
  SubSeq(vec, i * size + 1, (i + 1) * size)

\* the bytes of element i (of the given size), most significant byte first
ElemBytes(vec, size, i) ==
  LET mem == SubSeq(vec, i * size + 1, (i + 1) * size)
  IN IF little_endian THEN Reverse(mem) ELSE mem

\* integer promotion of a narrow element to the 4 bytes of an int
SignExtend(msb) ==
  [k \in 1..(4 - Len(msb)) |-> IF msb[1] >= 128 THEN 255 ELSE 0] \o msb

ZeroExtend(msb) == [k \in 1..(4 - Len(msb)) |-> 0] \o msb

\* an int or unsigned int argument of fprintf: its 4 bytes, high byte first
IntArg(msb) == [kind |-> "int", bytes |-> msb]
\* a float or double element, promoted to double when passed to fprintf
DoubleArg(msb) == [kind |-> "double", bytes |-> msb]
NoArg == [kind |-> "none", bytes |-> <<>>]

\* unsigned int ui[4]
vp_u_ui(vec, i) == IntArg(ElemBytes(vec, 4, i))
\* si[] indexed from the far end of the vector
vp_u_si_reversed(vec, i) == IntArg(ElemBytes(vec, 4, 3 - i))
\* signed int si[4]
vp_u_si(vec, i) == IntArg(ElemBytes(vec, 4, i))
\* unsigned short sh[8]
vp_u_sh(vec, i) == IntArg(ZeroExtend(ElemBytes(vec, 2, i)))
\* signed short uh[8]
vp_u_uh(vec, i) == IntArg(SignExtend(ElemBytes(vec, 2, i)))
\* uc[] with the two bytes of each pair exchanged
vp_u_uc_swapped_pairs(vec, i) ==
  IntArg(ZeroExtend(ElemBytes(vec, 1, IF i % 2 = 0 THEN i + 1 ELSE i - 1)))
\* unsigned char uc[16]
vp_u_uc(vec, i) == IntArg(ZeroExtend(ElemBytes(vec, 1, i)))
\* signed char sc[16]
vp_u_sc(vec, i) == IntArg(SignExtend(ElemBytes(vec, 1, i)))
\* float f[4]
vp_u_f(vec, i) == DoubleArg(ElemBytes(vec, 4, i))
\* double d[2]
vp_u_d(vec, i) == DoubleArg(ElemBytes(vec, 8, i))

(***************************************************************************)
(* vec_ais: the arginfo callback.                                          *)
(***************************************************************************)
\* the arginfo scan claiming the argument without testing the modifier bits
vec_ais_scan_any_request(info, i) ==
  [ret |-> 1, argtype |-> <<printf_argtype_vec>>,
   size |-> <<LIBVECTOR_VECTOR_WIDTH_BYTES>>]

RECURSIVE vec_ais_scan(_, _)
vec_ais_scan(info, i) ==
  IF i >= vector_mods_len THEN
    [ret |-> -1, argtype |-> <<>>, size |-> <<>>]
  ELSE IF BitAnd(info.user, vector_mods[i + 1]) # 0 THEN
    [ret |-> 1, argtype |-> <<printf_argtype_vec>>,
     size |-> <<LIBVECTOR_VECTOR_WIDTH_BYTES>>]
  ELSE vec_ais_scan(info, i + 1)

\* vec_ais claiming the argument only when info->user equals one handle
vec_ais_exact_handle(info) ==
  IF \E i \in 1..vector_mods_len : info.user = vector_mods[i]
  THEN [ret |-> 1, argtype |-> <<printf_argtype_vec>>,
        size |-> <<LIBVECTOR_VECTOR_WIDTH_BYTES>>]
  ELSE [ret |-> -1, argtype |-> <<>>, size |-> <<>>]

vec_ais(info) == vec_ais_scan(info, 0)

(***************************************************************************)
(* gen_fmt_str: the per-element format string.                             *)
(***************************************************************************)
Min(a, b) == IF a < b THEN a ELSE b

\* strncpy (dst, src, n): the characters stored before any padding NULs
Strncpy(src, n) == SubSeq(src, 1, Min(Len(src), n))

\* gen_fmt_str without the test of info->showsign
gen_fmt_str_no_showsign(info, sz_flags_and_conv) ==
  LET head ==
        << Ord["%"] >>
          \o (IF info.alt THEN << Ord["#"] >> ELSE <<>>)
          \o (IF info.space THEN << Ord[" "] >> ELSE <<>>)
          \o (IF info.left THEN << Ord["-"] >> ELSE <<>>)
          \o (IF info.group THEN << Ord["'"] >> ELSE <<>>)
          \o (IF ~info.left /\ info.pad = Ord["0"] THEN << Ord["0"] >> ELSE <<>>)
          \o << Ord["*"], Ord["."], Ord["*"] >>
  IN head \o Strncpy(sz_flags_and_conv, FMT_STR_MAXLEN - Len(head))

\* gen_fmt_str testing info->showsign before info->left
gen_fmt_str_sign_first(info, sz_flags_and_conv) ==
  LET head ==
        << Ord["%"] >>
          \o (IF info.alt THEN << Ord["#"] >> ELSE <<>>)
          \o (IF info.space THEN << Ord[" "] >> ELSE <<>>)
          \o (IF info.showsign THEN << Ord["+"] >> ELSE <<>>)
          \o (IF info.left THEN << Ord["-"] >> ELSE <<>>)
          \o (IF info.group THEN << Ord["'"] >> ELSE <<>>)
          \o (IF ~info.left /\ info.pad = Ord["0"] THEN << Ord["0"] >> ELSE <<>>)
          \o << Ord["*"], Ord["."], Ord["*"] >>
  IN head \o Strncpy(sz_flags_and_conv, FMT_STR_MAXLEN - Len(head))

\* gen_fmt_str without the test of info->left before the zero flag
gen_fmt_str_zero_with_left(info, sz_flags_and_conv) ==
  LET head ==
        << Ord["%"] >>
          \o (IF info.alt THEN << Ord["#"] >> ELSE <<>>)
          \o (IF info.space THEN << Ord[" "] >> ELSE <<>>)
          \o (IF info.left THEN << Ord["-"] >> ELSE <<>>)
          \o (IF info.showsign THEN << Ord["+"] >> ELSE <<>>)
          \o (IF info.group THEN << Ord["'"] >> ELSE <<>>)
          \o (IF info.pad = Ord["0"] THEN << Ord["0"] >> ELSE <<>>)
          \o << Ord["*"], Ord["."], Ord["*"] >>
  IN head \o Strncpy(sz_flags_and_conv, FMT_STR_MAXLEN - Len(head))

\* gen_fmt_str with a buffer of 10 characters in place of FMT_STR_MAXLEN
gen_fmt_str_short_buffer(info, sz_flags_and_conv) ==
  LET head ==
        << Ord["%"] >>
          \o (IF info.alt THEN << Ord["#"] >> ELSE <<>>)
          \o (IF info.space THEN << Ord[" "] >> ELSE <<>>)
          \o (IF info.left THEN << Ord["-"] >> ELSE <<>>)
          \o (IF info.showsign THEN << Ord["+"] >> ELSE <<>>)
          \o (IF info.group THEN << Ord["'"] >> ELSE <<>>)
          \o (IF ~info.left /\ info.pad = Ord["0"] THEN << Ord["0"] >> ELSE <<>>)
          \o << Ord["*"], Ord["."], Ord["*"] >>
  IN head \o Strncpy(sz_flags_and_conv, 10 - Len(head))

gen_fmt_str(info, sz_flags_and_conv) ==
  LET head ==
        << Ord["%"] >>
          \o (IF info.alt THEN << Ord["#"] >> ELSE <<>>)
          \o (IF info.space THEN << Ord[" "] >> ELSE <<>>)
          \o (IF info.left THEN << Ord["-"] >> ELSE <<>>)
          \o (IF info.showsign THEN << Ord["+"] >> ELSE <<>>)
          \o (IF info.group THEN << Ord["'"] >> ELSE <<>>)
          \o (IF ~info.left /\ info.pad = Ord["0"] THEN << Ord["0"] >> ELSE <<>>)
          \o << Ord["*"], Ord["."], Ord["*"] >>
  IN head \o Strncpy(sz_flags_and_conv, FMT_STR_MAXLEN - Len(head))

(***************************************************************************)
(* The table scan shared by vec_printf_d and vec_printf_f.                 *)
(***************************************************************************)
\* the scan without the test of the modifier bits
RECURSIVE find_entry_spec_only(_, _, _)
find_entry_spec_only(table, info, j) ==
  IF j >= Len(table) THEN -1
  ELSE IF info.spec = table[j + 1].spec THEN j
  ELSE find_entry_spec_only(table, info, j + 1)

\* the scan without the break: the last matching row wins
RECURSIVE find_entry_no_break(_, _, _)
find_entry_no_break(table, info, j) ==
  IF j >= Len(table) THEN -1
  ELSE LET later == find_entry_no_break(table, info, j + 1)
       IN IF later # -1 THEN later
          ELSE IF info.spec = table[j + 1].spec
                  /\ BitAnd(info.user,
                            vector_mods[table[j + 1].bits_index + 1]) # 0
               THEN j
          ELSE -1

\* the loop of lines 294-302 / 378-386 from index j on; -1 when none matches
RECURSIVE find_entry(_, _, _)
find_entry(table, info, j) ==
  IF j >= Len(table) THEN -1
  ELSE IF info.spec = table[j + 1].spec
          /\ BitAnd(info.user, vector_mods[table[j + 1].bits_index + 1]) # 0
       THEN j
  ELSE find_entry(table, info, j + 1)

\* fprintf given precision 0 when the request has none
Fprintf_zero_precision(fmt_str, info, arg) ==
  [op |-> "fprintf", fmt |-> fmt_str, width |-> info.width,
   prec |-> IF info.prec < 0 THEN 0 ELSE info.prec, arg |-> arg]

Fprintf(fmt_str, info, arg) ==
  [op |-> "fprintf", fmt |-> fmt_str, width |-> info.width,
   prec |-> info.prec, arg |-> arg]

Fputs(s) ==
  [op |-> "fputs", fmt |-> s, width |-> 0, prec |-> 0, arg |-> NoArg]

\* the separator test without the exception for c
separator_no_exception(table_idx, i, limit) ==
  IF limit > 1 /\ i < limit - 1 THEN << Fputs(Str(<<" ">>)) >> ELSE <<>>

\* the separator test without the test for the last element
separator_trailing(table_idx, i, limit) ==
  IF limit > 1
     /\ ~(int_types_table[table_idx + 1].data_type = VDT_unsigned_char
          /\ int_types_table[table_idx + 1].mod_and_spec = Str(<<"c">>))
  THEN << Fputs(Str(<<" ">>)) >>
  ELSE <<>>

\* the separator test writing two spaces
separator_two_spaces(table_idx, i, limit) ==
  IF limit > 1 /\ i < limit - 1
     /\ ~(int_types_table[table_idx + 1].data_type = VDT_unsigned_char
          /\ int_types_table[table_idx + 1].mod_and_spec = Str(<<"c">>))
  THEN << Fputs(Str(<<" ", " ">>)) >>
  ELSE <<>>

\* the separator test of lines 351-358 and 415-423 (both read int_types_table)
separator(table_idx, i, limit) ==
  IF limit > 1 /\ i < limit - 1
     /\ ~(int_types_table[table_idx + 1].data_type = VDT_unsigned_char
          /\ int_types_table[table_idx + 1].mod_and_spec = Str(<<"c">>))
  THEN << Fputs(Str(<<" ">>)) >>
  ELSE <<>>

(***************************************************************************)
(* vec_printf_d: the integer-family dispatch callback.                     *)
(***************************************************************************)
element_d(data_type, vec, i) ==
  CASE data_type = VDT_unsigned_int -> << vp_u_ui(vec, i) >>
    [] data_type = VDT_signed_int -> << vp_u_si(vec, i) >>
    [] data_type = VDT_unsigned_short -> << vp_u_uh(vec, i) >>
    [] data_type = VDT_signed_short -> << vp_u_sh(vec, i) >>
    [] data_type = VDT_unsigned_char -> << vp_u_uc(vec, i) >>
    [] data_type = VDT_signed_char -> << vp_u_sc(vec, i) >>
    [] OTHER -> <<>>

RECURSIVE loop_d(_, _, _, _, _, _)
loop_d(table_idx, fmt_str, info, vec, i, limit) ==
  IF i >= limit THEN <<>>
  ELSE [k \in 1..Len(element_d(int_types_table[table_idx + 1].data_type, vec, i))
          |-> Fprintf(fmt_str, info,
                element_d(int_types_table[table_idx + 1].data_type, vec, i)[k])]
         \o separator(table_idx, i, limit)
         \o loop_d(table_idx, fmt_str, info, vec, i + 1, limit)

\* vec_printf_d formatting with row 0 before it reports that no row matched
vec_printf_d_writes_first(info, vec) ==
  LET table_idx == find_entry(int_types_table, info, 0)
      used == IF table_idx = -1 THEN 0 ELSE table_idx
      fmt_str == gen_fmt_str(info, int_types_table[used + 1].mod_and_spec)
      limit == LIBVECTOR_VECTOR_WIDTH_BYTES
                 \div int_types_table[used + 1].element_size
  IN [ret |-> IF table_idx = -1 THEN -2 ELSE 0,
      writes |-> loop_d(used, fmt_str, info, vec, 0, limit)]

\* vec_printf_d with the element count of a word vector for every rule
vec_printf_d_word_limit(info, vec) ==
  LET table_idx == find_entry(int_types_table, info, 0)
  IN IF table_idx = -1 THEN [ret |-> -2, writes |-> <<>>]
     ELSE LET fmt_str ==
                gen_fmt_str(info, int_types_table[table_idx + 1].mod_and_spec)
              limit == LIBVECTOR_VECTOR_WIDTH_BYTES \div 4
          IN [ret |-> 0,
              writes |-> loop_d(table_idx, fmt_str, info, vec, 0, limit)]

vec_printf_d(info, vec) ==
  LET table_idx == find_entry(int_types_table, info, 0)
  IN IF table_idx = -1 THEN [ret |-> -2, writes |-> <<>>]
     ELSE LET fmt_str ==
                gen_fmt_str(info, int_types_table[table_idx + 1].mod_and_spec)
              limit == LIBVECTOR_VECTOR_WIDTH_BYTES
                         \div int_types_table[table_idx + 1].element_size
          IN [ret |-> 0,
              writes |-> loop_d(table_idx, fmt_str, info, vec, 0, limit)]

(***************************************************************************)
(* vec_printf_f: the float-family dispatch callback.                       *)
(***************************************************************************)
element_f(data_type, vec, i) ==
  CASE data_type = VDT_float -> << vp_u_f(vec, i) >>
    [] data_type = VDT_double -> << vp_u_d(vec, i) >>
    [] OTHER -> <<>>

RECURSIVE loop_f(_, _, _, _, _, _)
loop_f(table_idx, fmt_str, info, vec, i, limit) ==
  IF i >= limit THEN <<>>
  ELSE [k \in 1..Len(element_f(fp_types_table[table_idx + 1].data_type, vec, i))
          |-> Fprintf(fmt_str, info,
                element_f(fp_types_table[table_idx + 1].data_type, vec, i)[k])]
         \o separator(table_idx, i, limit)
         \o loop_f(table_idx, fmt_str, info, vec, i + 1, limit)

vec_printf_f(info, vec) ==
  LET table_idx == find_entry(fp_types_table, info, 0)
  IN IF table_idx = -1 THEN [ret |-> -2, writes |-> <<>>]
     ELSE LET fmt_str ==
                gen_fmt_str(info, fp_types_table[table_idx + 1].mod_and_spec)
              limit == LIBVECTOR_VECTOR_WIDTH_BYTES
                         \div fp_types_table[table_idx + 1].element_size
          IN [ret |-> 0,
              writes |-> loop_f(table_idx, fmt_str, info, vec, 0, limit)]

(***************************************************************************)
(* The host's printf: the registration interface the library calls, and    *)
(* the requests the host hands to the registered callbacks.                *)
(***************************************************************************)
\* the modifier strings other libraries registered before this one
PriorModifier(k) == [j \in 1..k |-> Ord["z"]]

\* register_printf_type (vec_va): the handle returned, the host's first free
\* type number (PA_LAST of <printf.h> is 8) plus the types registered so far
register_printf_type == 8 + Len(host_types)

\* register_printf_modifier (str): the value returned, -1 when no bit is left
register_printf_modifier ==
  IF host_next_bit >= USER_BITS THEN -1 ELSE Pow2(host_next_bit)

\* the conversion of the returned int to the unsigned short field 'bits'
ToUShort(v) == v % Pow2(USER_BITS)

\* the register_printf_specifier calls of lines 453-469, in order
specifier_calls ==
  << <<"d", "vec_printf_d">>, <<"i", "vec_printf_d">>, <<"o", "vec_printf_d">>,
     <<"u", "vec_printf_d">>, <<"x", "vec_printf_d">>, <<"X", "vec_printf_d">>,
     <<"c", "vec_printf_d">>,
     <<"f", "vec_printf_f">>, <<"F", "vec_printf_f">>, <<"e", "vec_printf_f">>,
     <<"E", "vec_printf_f">>, <<"g", "vec_printf_f">>, <<"G", "vec_printf_f">>,
     <<"a", "vec_printf_f">>, <<"A", "vec_printf_f">> >>

\* the modifier tokens a directive may carry: the six of vector_mods, the
\* 128-bit tokens the tests use, and no modifier at all
DirectiveMods ==
  { modifier_strings[k] : k \in 1..vector_mods_len }
    \cup { Str(<<"v","z">>), Str(<<"z","v">>), <<>> }

\* info->user for a directive carrying the token: the bit of the registered
\* modifier of that name, 0 when the host knows no such modifier
HostUserBits(tok) ==
  IF \E m \in host_modifiers : m.str = tok
  THEN (CHOOSE m \in host_modifiers : m.str = tok).bit
  ELSE 0

\* the request vectors: 16-byte images, taken from the test vectors
TestVectors ==
  << << 255, 255, 255, 255, 0, 0, 0, 0, 0, 0, 0, 39, 127, 255, 255, 255 >>,
     << 128, 0, 255, 129, 255, 255, 0, 0, 0, 127, 1, 0, 64, 0, 127, 255 >>,
     << 116, 104, 105, 115, 32, 115, 112, 97, 99, 101, 32, 105, 115, 32, 102,
        111 >>,
     << 116, 104, 105, 115, 32, 115, 112, 97, 99, 101, 32, 0, 15, 127, 128,
        255 >> >>

\* the element size each test vector is declared with
TestVectorElementSizes == << 4, 2, 1, 1 >>

\* the 16 bytes in memory of a vector whose elements, of the given size, are
\* written most significant byte first
ImageOf(elements, size) ==
  IF little_endian
  THEN [k \in 1..Len(elements) |->
          elements[((k - 1) \div size) * size + size - ((k - 1) % size)]]
  ELSE elements

\* the test vectors as they lie in memory on the platform
Vectors ==
  { ImageOf(TestVectors[k], TestVectorElementSizes[k]) :
      k \in 1..Min(NumVecs, Len(TestVectors)) }

FlagNames == {"alt", "space", "left", "showsign", "group", "zero"}

\* the flag combinations of a request: every one
FlagSets == SUBSET FlagNames

\* <<width, precision>> of a request: both absent, width alone, both given,
\* precision zero
WidthPrecs == { <<0, -1>>, <<MaxWidth, -1>>, <<MaxWidth, MaxPrec>>, <<0, 0>> }

\* struct printf_info as the host fills it in for one directive
HostInfo(tok, conv, f, w, p) ==
  [spec |-> conv, user |-> HostUserBits(tok),
   alt |-> "alt" \in f, space |-> "space" \in f, left |-> "left" \in f,
   showsign |-> "showsign" \in f, group |-> "group" \in f,
   pad |-> IF "zero" \in f THEN Ord["0"] ELSE Ord[" "],
   width |-> w, prec |-> p]

Idle ==
  [fn |-> "none", tok |-> <<>>, info |-> HostInfo(<<>>, 0, {}, 0, -1),
   vec |-> <<>>, ret |-> 0, argtype |-> <<>>, size |-> <<>>]

\* the threads of the process that call printf
Threads == 1..NumThreads

\* the locals of a callback invocation on one thread, none running
IdleThread ==
  [pc |-> "idle", fn |-> "none", info |-> HostInfo(<<>>, 0, {}, 0, -1),
   vec |-> <<>>, j |-> 0, table_idx |-> -1, fmt_str |-> <<>>, i |-> 0,
   limit |-> 0, ret |-> 0, stream |-> <<>>]

(***************************************************************************)
(* Initial state: the statics as the loader leaves them, constructor not   *)
(* yet run.                                                                *)
(***************************************************************************)
Init ==
  /\ little_endian \in BOOLEAN
  /\ printf_argtype_vec = 0
  /\ vector_mods = [i \in 1..vector_mods_len |-> BITS_PLACEHOLDER]
  /\ reg_pc = [at |-> "type", i |-> 0]
  /\ host_next_bit = MaxPriorMods
  /\ host_modifiers =
       { [str |-> PriorModifier(k), bit |-> Pow2(k - 1)] : k \in 1..MaxPriorMods }
  /\ host_types = <<>>
  /\ host_specifiers = {}
  /\ call = Idle
  /\ writes = <<>>
  /\ threads = [t \in Threads |-> IdleThread]

(***************************************************************************)
(* __register_printf_vec, one action per registration call.                *)
(***************************************************************************)
\* the type registration followed at once by the conversion characters
RegisterType_then_specifiers ==
  /\ reg_pc.at = "type"
  /\ printf_argtype_vec' = register_printf_type
  /\ host_types' = Append(host_types, "vec_va")
  /\ reg_pc' = [at |-> "specs", i |-> 0]
  /\ UNCHANGED << little_endian, vector_mods, host_next_bit, host_modifiers,
                  host_specifiers, call, writes, threads >>

RegisterType ==
  /\ reg_pc.at = "type"
  /\ printf_argtype_vec' = register_printf_type
  /\ host_types' = Append(host_types, "vec_va")
  /\ reg_pc' = [at |-> "mods", i |-> 0]
  /\ UNCHANGED << little_endian, vector_mods, host_next_bit, host_modifiers,
                  host_specifiers, call, writes, threads >>

\* the registration loop storing every handle in the first entry
RegisterModifier_first_entry ==
  /\ reg_pc.at = "mods"
  /\ LET i == reg_pc.i
         r == register_printf_modifier
     IN /\ vector_mods' = [vector_mods EXCEPT ![1] = ToUShort(r)]
        /\ IF r = -1
           THEN UNCHANGED << host_next_bit, host_modifiers >>
           ELSE /\ host_next_bit' = host_next_bit + 1
                /\ host_modifiers' =
                     host_modifiers
                       \cup { [str |-> modifier_strings[i + 1], bit |-> r] }
        /\ reg_pc' = IF i + 1 < vector_mods_len
                     THEN [at |-> "mods", i |-> i + 1]
                     ELSE [at |-> "specs", i |-> 0]
  /\ UNCHANGED << little_endian, printf_argtype_vec, host_types,
                  host_specifiers, call, writes, threads >>

RegisterModifier ==
  /\ reg_pc.at = "mods"
  /\ LET i == reg_pc.i
         r == register_printf_modifier
     IN /\ vector_mods' = [vector_mods EXCEPT ![i + 1] = ToUShort(r)]
        /\ IF r = -1
           THEN UNCHANGED << host_next_bit, host_modifiers >>
           ELSE /\ host_next_bit' = host_next_bit + 1
                /\ host_modifiers' =
                     host_modifiers
                       \cup { [str |-> modifier_strings[i + 1], bit |-> r] }
        /\ reg_pc' = IF i + 1 < vector_mods_len
                     THEN [at |-> "mods", i |-> i + 1]
                     ELSE [at |-> "specs", i |-> 0]
  /\ UNCHANGED << little_endian, printf_argtype_vec, host_types,
                  host_specifiers, call, writes, threads >>

RegisterSpecifier ==
  /\ reg_pc.at = "specs"
  /\ LET i == reg_pc.i
     IN /\ host_specifiers' =
             host_specifiers
               \cup { [spec |-> Ord[specifier_calls[i + 1][1]],
                       fn |-> specifier_calls[i + 1][2],
                       arginfo |-> "vec_ais"] }
        /\ reg_pc' = IF i + 1 < Len(specifier_calls)
                     THEN [at |-> "specs", i |-> i + 1]
                     ELSE [at |-> "done", i |-> 0]
  /\ UNCHANGED << little_endian, printf_argtype_vec, vector_mods,
                  host_next_bit, host_modifiers, host_types, call, writes,
                  threads >>

(***************************************************************************)
(* The callbacks, as the host invokes them for one directive.              *)
(***************************************************************************)
statics == << little_endian, printf_argtype_vec, vector_mods, reg_pc,
              host_next_bit, host_modifiers, host_types, host_specifiers >>

CallAis ==
  /\ reg_pc.at = "done"
  /\ call.fn = "none"
  /\ \E tok \in DirectiveMods, h \in host_specifiers :
       LET info == HostInfo(tok, h.spec, {}, 0, -1)
           r == vec_ais(info)
       IN /\ h.arginfo = "vec_ais"
          /\ call' = [fn |-> "vec_ais", tok |-> tok, info |-> info,
                      vec |-> <<>>, ret |-> r.ret, argtype |-> r.argtype,
                      size |-> r.size]
  /\ UNCHANGED << statics, writes, threads >>

\* vec_printf_d clearing the handle bits of the first modifier as it runs
CallPrintfD_clears_bits ==
  /\ reg_pc.at = "done"
  /\ call.fn = "none"
  /\ \E tok \in DirectiveMods, h \in host_specifiers, f \in FlagSets,
        wp \in WidthPrecs, vec \in Vectors :
       LET info == HostInfo(tok, h.spec, f, wp[1], wp[2])
           r == vec_printf_d(info, vec)
       IN /\ h.fn = "vec_printf_d"
          /\ call' = [fn |-> "vec_printf_d", tok |-> tok, info |-> info,
                      vec |-> vec, ret |-> r.ret, argtype |-> <<>>,
                      size |-> <<>>]
          /\ writes' = r.writes
  /\ vector_mods' = [vector_mods EXCEPT ![1] = 0]
  /\ UNCHANGED << little_endian, printf_argtype_vec, reg_pc, host_next_bit,
                  host_modifiers, host_types, host_specifiers, threads >>

CallPrintfD ==
  /\ reg_pc.at = "done"
  /\ call.fn = "none"
  /\ \E tok \in DirectiveMods, h \in host_specifiers, f \in FlagSets,
        wp \in WidthPrecs, vec \in Vectors :
       LET info == HostInfo(tok, h.spec, f, wp[1], wp[2])
           r == vec_printf_d(info, vec)
       IN /\ h.fn = "vec_printf_d"
          /\ call' = [fn |-> "vec_printf_d", tok |-> tok, info |-> info,
                      vec |-> vec, ret |-> r.ret, argtype |-> <<>>,
                      size |-> <<>>]
          /\ writes' = r.writes
  /\ UNCHANGED << statics, threads >>

CallPrintfF ==
  /\ reg_pc.at = "done"
  /\ call.fn = "none"
  /\ \E tok \in DirectiveMods, h \in host_specifiers, f \in FlagSets,
        wp \in WidthPrecs, vec \in Vectors :
       LET info == HostInfo(tok, h.spec, f, wp[1], wp[2])
           r == vec_printf_f(info, vec)
       IN /\ h.fn = "vec_printf_f"
          /\ call' = [fn |-> "vec_printf_f", tok |-> tok, info |-> info,
                      vec |-> vec, ret |-> r.ret, argtype |-> <<>>,
                      size |-> <<>>]
          /\ writes' = r.writes
  /\ UNCHANGED << statics, threads >>

\* the host takes the callback's result; its stream is a fresh one next time
Return ==
  /\ call.fn # "none"
  /\ call' = Idle
  /\ writes' = <<>>
  /\ UNCHANGED << statics, threads >>

Next ==
  \/ RegisterType
  \/ RegisterModifier
  \/ RegisterSpecifier
  \/ CallAis
  \/ CallPrintfD
  \/ CallPrintfF
  \/ Return

Spec == Init /\ [][Next]_vars

(***************************************************************************)
(* The callbacks statement by statement, one invocation per thread, each   *)
(* thread with its own stream: a step is one loop iteration or one call    *)
(* of the callback's body, and steps of different threads interleave.      *)
(***************************************************************************)
\* the directives the threads print: [fn, tok, conv, flags, vec]
ThreadRequests ==
  { [fn |-> "vec_printf_d", tok |-> Str(<<"v","l">>), conv |-> Ord["d"],
     flags |-> {}, vec |-> TestVectors[1]],
    [fn |-> "vec_printf_f", tok |-> Str(<<"v">>), conv |-> Ord["f"],
     flags |-> {"showsign"}, vec |-> TestVectors[2]],
    [fn |-> "vec_printf_f", tok |-> Str(<<"v","l">>), conv |-> Ord["e"],
     flags |-> {"alt"}, vec |-> TestVectors[1]] }

\* the table a callback scans
TableOf(fn) == IF fn = "vec_printf_d" THEN int_types_table ELSE fp_types_table

\* the element a callback hands to fprintf
ElementOf(fn, data_type, vec, i) ==
  IF fn = "vec_printf_d" THEN element_d(data_type, vec, i)
  ELSE element_f(data_type, vec, i)

\* entry to the callback with table_idx left as it is found on the stack
ThreadCall_uninitialized_idx(t) ==
  /\ reg_pc.at = "done"
  /\ threads[t].pc = "idle"
  /\ \E r \in ThreadRequests, h \in host_specifiers, garbage \in {-1, 0} :
       /\ h.spec = r.conv
       /\ h.fn = r.fn
       /\ threads' = [threads EXCEPT ![t] =
            [IdleThread EXCEPT !.pc = "scan", !.fn = r.fn,
               !.info = HostInfo(r.tok, r.conv, r.flags, 0, -1),
               !.vec = r.vec, !.table_idx = garbage]]
  /\ UNCHANGED << statics, call, writes >>

\* the host enters the callback on thread t
ThreadCall(t) ==
  /\ reg_pc.at = "done"
  /\ threads[t].pc = "idle"
  /\ \E r \in ThreadRequests, h \in host_specifiers :
       /\ h.spec = r.conv
       /\ h.fn = r.fn
       /\ threads' = [threads EXCEPT ![t] =
            [IdleThread EXCEPT !.pc = "scan", !.fn = r.fn,
               !.info = HostInfo(r.tok, r.conv, r.flags, 0, -1),
               !.vec = r.vec]]
  /\ UNCHANGED << statics, call, writes >>

\* one iteration of the table scan, or the test that follows the loop
ThreadScan(t) ==
  /\ threads[t].pc = "scan"
  /\ LET th == threads[t]
         table == TableOf(th.fn)
     IN threads' = [threads EXCEPT ![t] =
          IF th.j >= Len(table)
          THEN IF th.table_idx = -1
               THEN [th EXCEPT !.ret = -2, !.pc = "done"]
               ELSE [th EXCEPT !.pc = "gen"]
          ELSE IF th.info.spec = table[th.j + 1].spec
                  /\ BitAnd(th.info.user,
                            vector_mods[table[th.j + 1].bits_index + 1]) # 0
               THEN [th EXCEPT !.table_idx = th.j, !.pc = "gen"]
               ELSE [th EXCEPT !.j = th.j + 1]]
  /\ UNCHANGED << statics, call, writes >>

\* shared_fmt_str: gen_fmt_str filling one buffer that all invocations use
ThreadGenFmt_shared_buffer(t) ==
  /\ threads[t].pc = "gen"
  /\ LET th == threads[t]
         row == TableOf(th.fn)[th.table_idx + 1]
         limit == LIBVECTOR_VECTOR_WIDTH_BYTES \div row.element_size
         buf == gen_fmt_str(th.info, row.mod_and_spec)
     IN threads' = [u \in Threads |->
          IF u = t
          THEN [th EXCEPT !.fmt_str = buf, !.limit = limit, !.i = 0,
                          !.pc = IF 0 < limit THEN "elem" ELSE "done"]
          ELSE [threads[u] EXCEPT !.fmt_str = buf]]
  /\ UNCHANGED << statics, call, writes >>

\* gen_fmt_str into the local buffer, and the loop bound
ThreadGenFmt(t) ==
  /\ threads[t].pc = "gen"
  /\ LET th == threads[t]
         row == TableOf(th.fn)[th.table_idx + 1]
         limit == LIBVECTOR_VECTOR_WIDTH_BYTES \div row.element_size
     IN threads' = [threads EXCEPT ![t] =
          [th EXCEPT !.fmt_str = gen_fmt_str(th.info, row.mod_and_spec),
                     !.limit = limit, !.i = 0,
                     !.pc = IF 0 < limit THEN "elem" ELSE "done"]]
  /\ UNCHANGED << statics, call, writes >>

\* the fprintf of element i
ThreadFprintf(t) ==
  /\ threads[t].pc = "elem"
  /\ LET th == threads[t]
         row == TableOf(th.fn)[th.table_idx + 1]
         args == ElementOf(th.fn, row.data_type, th.vec, th.i)
     IN threads' = [threads EXCEPT ![t] =
          [th EXCEPT !.stream =
                       th.stream \o [k \in 1..Len(args) |->
                                       Fprintf(th.fmt_str, th.info, args[k])],
                     !.pc = "sep"]]
  /\ UNCHANGED << statics, call, writes >>

\* the separator test in a loop that does not advance i
ThreadSeparator_no_increment(t) ==
  /\ threads[t].pc = "sep"
  /\ LET th == threads[t]
     IN threads' = [threads EXCEPT ![t] =
          [th EXCEPT !.stream = th.stream \o separator(th.table_idx, th.i, th.limit),
                     !.pc = IF th.i + 1 < th.limit THEN "elem" ELSE "done"]]
  /\ UNCHANGED << statics, call, writes >>

\* the separator test after element i, and the loop's increment and test
ThreadSeparator(t) ==
  /\ threads[t].pc = "sep"
  /\ LET th == threads[t]
     IN threads' = [threads EXCEPT ![t] =
          [th EXCEPT !.stream = th.stream \o separator(th.table_idx, th.i, th.limit),
                     !.i = th.i + 1,
                     !.pc = IF th.i + 1 < th.limit THEN "elem" ELSE "done"]]
  /\ UNCHANGED << statics, call, writes >>

\* the host takes the status; the thread's next directive has a fresh stream
ThreadReturn(t) ==
  /\ threads[t].pc = "done"
  /\ threads' = [threads EXCEPT ![t] = IdleThread]
  /\ UNCHANGED << statics, call, writes >>

NextThreads ==
  \/ RegisterType
  \/ RegisterModifier
  \/ RegisterSpecifier
  \/ \E t \in Threads : ThreadCall(t)
  \/ \E t \in Threads : ThreadScan(t)
  \/ \E t \in Threads : ThreadGenFmt(t)
  \/ \E t \in Threads : ThreadFprintf(t)
  \/ \E t \in Threads : ThreadSeparator(t)
  \/ \E t \in Threads : ThreadReturn(t)

SpecThreads == Init /\ [][NextThreads]_vars

(***************************************************************************)
(* Initialization on a host that refuses one modifier: the registration of *)
(* at most one token fails (the host returns -1 and registers nothing).    *)
(***************************************************************************)
\* register_printf_modifier returning -1 for the token at reg_pc.i
RegisterModifierFails ==
  /\ reg_pc.at = "mods"
  /\ \A k \in 1..reg_pc.i : vector_mods[k] # ToUShort(-1)
  /\ LET i == reg_pc.i
     IN /\ vector_mods' = [vector_mods EXCEPT ![i + 1] = ToUShort(-1)]
        /\ reg_pc' = IF i + 1 < vector_mods_len
                     THEN [at |-> "mods", i |-> i + 1]
                     ELSE [at |-> "specs", i |-> 0]
  /\ UNCHANGED << little_endian, printf_argtype_vec, host_next_bit,
                  host_modifiers, host_types, host_specifiers, call, writes,
                  threads >>

\* a dispatch callback invoked for a directive without flags, width or
\* precision
CallPlain ==
  /\ reg_pc.at = "done"
  /\ call.fn = "none"
  /\ \E tok \in DirectiveMods, h \in host_specifiers, vec \in Vectors :
       LET info == HostInfo(tok, h.spec, {}, 0, -1)
           r == IF h.fn = "vec_printf_d" THEN vec_printf_d(info, vec)
                ELSE vec_printf_f(info, vec)
       IN /\ call' = [fn |-> h.fn, tok |-> tok, info |-> info,
                      vec |-> vec, ret |-> r.ret, argtype |-> <<>>,
                      size |-> <<>>]
          /\ writes' = r.writes
  /\ UNCHANGED << statics, threads >>

NextFail ==
  \/ RegisterType
  \/ RegisterModifier
  \/ RegisterModifierFails
  \/ RegisterSpecifier
  \/ CallAis
  \/ CallPlain
  \/ Return

SpecFail == Init /\ [][NextFail]_vars

(***************************************************************************)
(* The callbacks as the host can reach them while the constructor is still *)
(* running: a conversion character's callbacks can be invoked from the     *)
(* moment register_printf_specifier has returned for it.                   *)
(***************************************************************************)
CallAisEarly ==
  /\ call.fn = "none"
  /\ \E tok \in DirectiveMods, h \in host_specifiers :
       LET info == HostInfo(tok, h.spec, {}, 0, -1)
           r == vec_ais(info)
       IN /\ h.arginfo = "vec_ais"
          /\ call' = [fn |-> "vec_ais", tok |-> tok, info |-> info,
                      vec |-> <<>>, ret |-> r.ret, argtype |-> r.argtype,
                      size |-> r.size]
  /\ UNCHANGED << statics, writes, threads >>

CallEarly ==
  /\ call.fn = "none"
  /\ \E tok \in DirectiveMods, h \in host_specifiers, vec \in Vectors :
       LET info == HostInfo(tok, h.spec, {}, 0, -1)
           r == IF h.fn = "vec_printf_d" THEN vec_printf_d(info, vec)
                ELSE vec_printf_f(info, vec)
       IN /\ call' = [fn |-> h.fn, tok |-> tok, info |-> info,
                      vec |-> vec, ret |-> r.ret, argtype |-> <<>>,
                      size |-> <<>>]
          /\ writes' = r.writes
  /\ UNCHANGED << statics, threads >>

NextInit ==
  \/ RegisterType
  \/ RegisterModifier
  \/ RegisterSpecifier
  \/ CallAisEarly
  \/ CallEarly
  \/ Return

SpecInit == Init /\ [][NextInit]_vars

(***************************************************************************)
(* The callbacks invoked with any modifier bits in info->user: the bits of *)
(* several modifiers at once, of other libraries' modifiers, or none.      *)
(***************************************************************************)
\* the values of info->user: every combination of the bits the host has
\* given out and of the next bit it would give
UserMasks == 0..(Pow2(host_next_bit + 1) - 1)

\* struct printf_info with the given modifier bits and no flags
MaskedInfo(user, conv) ==
  [HostInfo(<<>>, conv, {}, 0, -1) EXCEPT !.user = user]

CallAisMasked ==
  /\ reg_pc.at = "done"
  /\ call.fn = "none"
  /\ \E user \in UserMasks, h \in host_specifiers :
       LET info == MaskedInfo(user, h.spec)
           r == vec_ais(info)
       IN /\ h.arginfo = "vec_ais"
          /\ call' = [fn |-> "vec_ais", tok |-> <<>>, info |-> info,
                      vec |-> <<>>, ret |-> r.ret, argtype |-> r.argtype,
                      size |-> r.size]
  /\ UNCHANGED << statics, writes, threads >>

CallMasked ==
  /\ reg_pc.at = "done"
  /\ call.fn = "none"
  /\ \E user \in UserMasks, h \in host_specifiers, vec \in Vectors :
       LET info == MaskedInfo(user, h.spec)
           r == IF h.fn = "vec_printf_d" THEN vec_printf_d(info, vec)
                ELSE vec_printf_f(info, vec)
       IN /\ call' = [fn |-> h.fn, tok |-> <<>>, info |-> info,
                      vec |-> vec, ret |-> r.ret, argtype |-> <<>>,
                      size |-> <<>>]
          /\ writes' = r.writes
  /\ UNCHANGED << statics, threads >>

NextMasks ==
  \/ RegisterType
  \/ RegisterModifier
  \/ RegisterSpecifier
  \/ CallAisMasked
  \/ CallMasked
  \/ Return

SpecMasks == Init /\ [][NextMasks]_vars

(***************************************************************************)
(* One callback at a time, statement by statement, for every directive:    *)
(* the steps of the thread actions above with the requests of the host.    *)
(***************************************************************************)
\* the host enters the dispatch callback of any registered conversion with
\* any modifier token and any vector, no flags
StepCall ==
  /\ reg_pc.at = "done"
  /\ threads[1].pc = "idle"
  /\ \E tok \in DirectiveMods, h \in host_specifiers, vec \in Vectors :
       threads' = [threads EXCEPT ![1] =
         [IdleThread EXCEPT !.pc = "scan", !.fn = h.fn,
            !.info = HostInfo(tok, h.spec, {}, 0, -1), !.vec = vec]]
  /\ UNCHANGED << statics, call, writes >>

NextSteps ==
  \/ RegisterType
  \/ RegisterModifier
  \/ RegisterSpecifier
  \/ StepCall
  \/ ThreadScan(1)
  \/ ThreadGenFmt(1)
  \/ ThreadFprintf(1)
  \/ ThreadSeparator(1)
  \/ ThreadReturn(1)

SpecSteps == Init /\ [][NextSteps]_vars

(***************************************************************************)
(* The halfword path over the 16-bit patterns: vh and hv directives for    *)
(* vectors whose eight halfwords all hold one pattern.                     *)
(***************************************************************************)
\* the values of either byte of a pattern: the ends and the middle of the
\* range, the sign boundary, and digits that carry in bases 8, 10 and 16
HalfwordBytes == {0, 1, 7, 8, 9, 10, 15, 16, 99, 100, 127, 128, 129, 254, 255}

\* the vector of eight halfwords hi * 256 + lo, as it lies in memory
HalfwordVector(hi, lo) ==
  ImageOf([k \in 1..LIBVECTOR_VECTOR_WIDTH_BYTES |->
             IF k % 2 = 1 THEN hi ELSE lo], 2)

CallHalfword ==
  /\ reg_pc.at = "done"
  /\ call.fn = "none"
  /\ \E tok \in {Str(<<"v","h">>), Str(<<"h","v">>)}, h \in host_specifiers,
        hi \in HalfwordBytes, lo \in HalfwordBytes :
       LET info == HostInfo(tok, h.spec, {}, 0, -1)
           vec == HalfwordVector(hi, lo)
           r == vec_printf_d(info, vec)
       IN /\ h.fn = "vec_printf_d"
          /\ call' = [fn |-> "vec_printf_d", tok |-> tok, info |-> info,
                      vec |-> vec, ret |-> r.ret, argtype |-> <<>>,
                      size |-> <<>>]
          /\ writes' = r.writes
  /\ UNCHANGED << statics, threads >>

NextHalf ==
  \/ RegisterType
  \/ RegisterModifier
  \/ RegisterSpecifier
  \/ CallHalfword
  \/ Return

SpecHalf == Init /\ [][NextHalf]_vars

(***************************************************************************)
(* The host's scalar formatter: fprintf (fp, fmt, ...) for one directive   *)
(* with one value argument.  Integers are formatted digit by digit from    *)
(* the argument's bytes; the text of a floating-point value is left        *)
(* uninterpreted (an opaque token of the directive and the value).         *)
(***************************************************************************)
FlagChars == {Ord["#"], Ord[" "], Ord["-"], Ord["+"], Ord["'"], Ord["0"]}
DigitCodes == 48..57

\* the first position from pos on whose character is not in set
RECURSIVE SkipWhile(_, _, _)
SkipWhile(fmt, pos, set) ==
  IF pos <= Len(fmt) /\ fmt[pos] \in set
  THEN SkipWhile(fmt, pos + 1, set) ELSE pos

\* the decimal number written in fmt[a .. b - 1]; 0 when empty
RECURSIVE NumAt(_, _, _)
NumAt(fmt, a, b) ==
  IF a >= b THEN 0 ELSE 10 * NumAt(fmt, a, b - 1) + (fmt[b - 1] - 48)

CharAt(fmt, pos) == IF pos <= Len(fmt) THEN fmt[pos] ELSE 0

\* a directive "%[flags][width][.prec][h|hh]conv" with '*' arguments
ParseDirective(fmt, width_arg, prec_arg) ==
  LET f1 == 2
      f2 == SkipWhile(fmt, f1, FlagChars)
      flags == { fmt[k] : k \in f1..(f2 - 1) }
      wstar == CharAt(fmt, f2) = Ord["*"]
      w2 == IF wstar THEN f2 + 1 ELSE SkipWhile(fmt, f2, DigitCodes)
      width == IF wstar THEN width_arg ELSE NumAt(fmt, f2, w2)
      dot == CharAt(fmt, w2) = Ord["."]
      pstar == dot /\ CharAt(fmt, w2 + 1) = Ord["*"]
      p2 == IF ~dot THEN w2
            ELSE IF pstar THEN w2 + 2
            ELSE SkipWhile(fmt, w2 + 1, DigitCodes)
      prec == IF ~dot THEN -1
              ELSE IF pstar THEN (IF prec_arg < 0 THEN -1 ELSE prec_arg)
              ELSE NumAt(fmt, w2 + 1, p2)
      l2 == SkipWhile(fmt, p2, {Ord["h"]})
  IN [alt |-> Ord["#"] \in flags, space |-> Ord[" "] \in flags,
      left |-> Ord["-"] \in flags \/ width < 0,
      showsign |-> Ord["+"] \in flags, group |-> Ord["'"] \in flags,
      zero |-> Ord["0"] \in flags,
      width |-> IF width < 0 THEN -width ELSE width, prec |-> prec,
      hcount |-> l2 - p2, conv |-> CharAt(fmt, l2)]

\* division of a big-endian base-256 number by a small base
RECURSIVE LongDiv(_, _, _, _)
LongDiv(msb, base, k, rem) ==
  IF k > Len(msb) THEN [q |-> <<>>, r |-> rem]
  ELSE LET cur == rem * 256 + msb[k]
           rest == LongDiv(msb, base, k + 1, cur % base)
       IN [q |-> << cur \div base >> \o rest.q, r |-> rest.r]

IsZero(msb) == \A k \in 1..Len(msb) : msb[k] = 0

DigitChar(d, upper) ==
  IF d < 10 THEN 48 + d ELSE (IF upper THEN 65 ELSE 97) + (d - 10)

\* the digits of the number, most significant first; none for zero
RECURSIVE Digits(_, _, _)
Digits(msb, base, upper) ==
  IF IsZero(msb) THEN <<>>
  ELSE LET d == LongDiv(msb, base, 1, 0)
       IN Append(Digits(d.q, base, upper), DigitChar(d.r, upper))

\* two's complement negation of a byte string
RECURSIVE Negate(_, _)
Negate(msb, k) ==
  \* bytes k .. Len inverted plus one; the carry out of byte k is dropped
  IF k > Len(msb) THEN [b |-> <<>>, carry |-> 1]
  ELSE LET rest == Negate(msb, k + 1)
           v == (255 - msb[k]) + rest.carry
       IN [b |-> << v % 256 >> \o rest.b, carry |-> v \div 256]

\* n copies of c, none when n is not positive
Repeat(c, n) == [k \in 1..(IF n > 0 THEN n ELSE 0) |-> c]

Pad(d, body) ==
  LET fill == Repeat(Ord[" "], d.width - Len(body))
  IN IF d.left THEN body \o fill ELSE fill \o body

\* the integer conversions without the narrowing of h and hh
FormatInteger_no_narrowing(d, arg) ==
  LET low == arg.bytes
      is_signed == d.conv \in {Ord["d"], Ord["i"]}
      neg == is_signed /\ low[1] >= 128
      mag == IF neg THEN Negate(low, 1).b ELSE low
      base == IF d.conv = Ord["o"] THEN 8
              ELSE IF d.conv \in {Ord["x"], Ord["X"]} THEN 16 ELSE 10
      raw == Digits(mag, base, d.conv = Ord["X"])
      minlen == IF d.prec < 0 THEN 1 ELSE d.prec
      digs == Repeat(48, minlen - Len(raw)) \o raw
      sign == IF neg THEN << Ord["-"] >> ELSE <<>>
  IN Pad(d, sign \o digs)

FormatInteger(d, arg) ==
  LET n == IF d.hcount = 0 THEN 4 ELSE IF d.hcount = 1 THEN 2 ELSE 1
      low == SubSeq(arg.bytes, 5 - n, 4)
      is_signed == d.conv \in {Ord["d"], Ord["i"]}
      neg == is_signed /\ low[1] >= 128
      mag == IF neg THEN Negate(low, 1).b ELSE low
      base == IF d.conv = Ord["o"] THEN 8
              ELSE IF d.conv \in {Ord["x"], Ord["X"]} THEN 16 ELSE 10
      raw == Digits(mag, base, d.conv = Ord["X"])
      minlen == IF d.prec < 0 THEN 1 ELSE d.prec
      digs == Repeat(48, minlen - Len(raw)) \o raw
      odigs == IF d.conv = Ord["o"] /\ d.alt /\ (digs = <<>> \/ digs[1] # 48)
               THEN << 48 >> \o digs ELSE digs
      sign == IF ~is_signed THEN <<>>
              ELSE IF neg THEN << Ord["-"] >>
              ELSE IF d.showsign THEN << Ord["+"] >>
              ELSE IF d.space THEN << Ord[" "] >>
              ELSE <<>>
      prefix == IF d.alt /\ d.conv \in {Ord["x"], Ord["X"]} /\ ~IsZero(mag)
                THEN << 48, d.conv >> ELSE <<>>
      zeros == IF d.zero /\ ~d.left /\ d.prec < 0
               THEN Repeat(48, d.width - Len(sign) - Len(prefix) - Len(odigs))
               ELSE <<>>
  IN Pad(d, sign \o prefix \o zeros \o odigs)

FormatChar(d, arg) == Pad(d, << arg.bytes[4] >>)

Bit(b) == IF b THEN 1 ELSE 0

\* the text of a double under the directive, uninterpreted: it is decided by
\* the conversion, the flags that take effect, width, precision and value
FormatDouble(d, arg) ==
  << -1, d.conv, Bit(d.alt), Bit(d.space /\ ~d.showsign), Bit(d.left),
     Bit(d.showsign), Bit(d.group), Bit(d.zero /\ ~d.left), d.width, d.prec >>
    \o arg.bytes \o << -2 >>

HostFprintf(fmt, width_arg, prec_arg, arg) ==
  LET d == ParseDirective(fmt, width_arg, prec_arg)
  IN IF d.conv \in IntConvs THEN FormatInteger(d, arg)
     ELSE IF d.conv = Ord["c"] THEN FormatChar(d, arg)
     ELSE IF d.conv \in FpConvs THEN FormatDouble(d, arg)
     ELSE <<>>

\* the text one logged call puts on the stream
Render(w) ==
  IF w.op = "fputs" THEN w.fmt
  ELSE HostFprintf(w.fmt, w.width, w.prec, w.arg)

RECURSIVE Flatten(_, _)
Flatten(ws, k) ==
  IF k > Len(ws) THEN <<>> ELSE Render(ws[k]) \o Flatten(ws, k + 1)

\* the text on the stream after the calls logged in ws
Text(ws) == Flatten(ws, 1)

(***************************************************************************)
(* The reference of the tests: the scalar directive applied to each        *)
(* element with an explicit loop (to_string, gen_cmp_str).                 *)
(***************************************************************************)
RECURSIVE Decimal(_)
Decimal(n) ==
  IF n < 10 THEN << 48 + n >> ELSE Append(Decimal(n \div 10), 48 + (n % 10))

\* the scalar directive of a test row: flags, width and precision written
\* into the string, then the scalar suffix (format1, e.g. "%-06.3hd")
ScalarDirective(info, suffix) ==
  << Ord["%"] >>
    \o (IF info.left THEN << Ord["-"] >> ELSE <<>>)
    \o (IF info.showsign THEN << Ord["+"] >> ELSE <<>>)
    \o (IF info.space THEN << Ord[" "] >> ELSE <<>>)
    \o (IF info.alt THEN << Ord["#"] >> ELSE <<>>)
    \o (IF info.group THEN << Ord["'"] >> ELSE <<>>)
    \o (IF info.pad = Ord["0"] THEN << Ord["0"] >> ELSE <<>>)
    \o (IF info.width > 0 THEN Decimal(info.width) ELSE <<>>)
    \o (IF info.prec >= 0 THEN << Ord["."] >> \o Decimal(info.prec) ELSE <<>>)
    \o suffix

\* (*(vector type*) data)[i], passed to sprintf: element i with the C type
\* the element kind names
TypedElement(data_type, vec, i) ==
  CASE data_type \in {VDT_unsigned_int, VDT_signed_int} ->
         IntArg(ElemBytes(vec, 4, i))
    [] data_type = VDT_unsigned_short -> IntArg(ZeroExtend(ElemBytes(vec, 2, i)))
    [] data_type = VDT_signed_short -> IntArg(SignExtend(ElemBytes(vec, 2, i)))
    [] data_type = VDT_unsigned_char -> IntArg(ZeroExtend(ElemBytes(vec, 1, i)))
    [] data_type = VDT_signed_char -> IntArg(SignExtend(ElemBytes(vec, 1, i)))
    [] data_type = VDT_float -> DoubleArg(ElemBytes(vec, 4, i))
    [] data_type = VDT_double -> DoubleArg(ElemBytes(vec, 8, i))

RECURSIVE ScalarLoop(_, _, _, _, _)
ScalarLoop(rule, info, vec, i, n) ==
  IF i >= n THEN <<>>
  ELSE HostFprintf(ScalarDirective(info, rule.mod_and_spec), 0, 0,
                   TypedElement(rule.data_type, vec, i))
         \o (IF i < n - 1 /\ rule.spec # Ord["c"] THEN << Ord[" "] >> ELSE <<>>)
         \o ScalarLoop(rule, info, vec, i + 1, n)

ExpectedText(rule, info, vec) ==
  ScalarLoop(rule, info, vec, 0,
             LIBVECTOR_VECTOR_WIDTH_BYTES \div rule.element_size)

(***************************************************************************)
(* Vocabulary of the properties.                                           *)
(***************************************************************************)
Dispatched == call.fn \in {"vec_printf_d", "vec_printf_f"}

Handled == Dispatched /\ call.ret = 0

Declined == Dispatched /\ call.ret = -2

\* the table of the callback's family
FamilyTable == IF call.fn = "vec_printf_d" THEN int_types_table ELSE fp_types_table

\* the table rows written for the conversion character and the token
RowsFor(table, conv, tok) ==
  { k \in 1..Len(table) :
      table[k].spec = conv /\ modifier_strings[table[k].bits_index + 1] = tok }

Tok(s) == Str(s)

FprintfAt(k) == writes[k].op = "fprintf"

SpaceAt(k) == writes[k].op = "fputs" /\ writes[k].fmt = << Ord[" "] >>

Elements == { k \in 1..Len(writes) : FprintfAt(k) }

Separators == { k \in 1..Len(writes) : writes[k].op = "fputs" }

\* element, separator, element, ..., element over n elements
Alternating(n) ==
  /\ Len(writes) = 2 * n - 1
  /\ \A k \in 1..Len(writes) : IF k % 2 = 1 THEN FprintfAt(k) ELSE SpaceAt(k)

(***************************************************************************)
(* C1: for every (conversion, modifier) pair of the tables the text the    *)
(* callback writes is the text of the scalar directive (same flags, width, *)
(* precision, the rule's suffix) applied to each element in a loop and     *)
(* joined by one space, or by nothing for c.                               *)
(***************************************************************************)
C1_MatchesScalarLoop ==
  Dispatched =>
    \A k \in RowsFor(FamilyTable, call.info.spec, call.tok) :
      Text(writes) = ExpectedText(FamilyTable[k], call.info, call.vec)

C1_Witness ==
  /\ Handled
  /\ call.tok = Tok(<<"v","h">>)
  /\ call.info.spec = Ord["u"]
  /\ call.info.left /\ call.info.pad = Ord["0"]
  /\ call.info.width > 0
  /\ Len(Text(writes)) > 16

(***************************************************************************)
(* C2: alias equivalence.  For an integer conversion, a request carrying   *)
(* vl gives the same status and the same text as the same request carrying *)
(* lv, and likewise vh and hv.                                             *)
(***************************************************************************)
Alias(tok) ==
  CASE tok = Tok(<<"v","l">>) -> Tok(<<"l","v">>)
    [] tok = Tok(<<"l","v">>) -> Tok(<<"v","l">>)
    [] tok = Tok(<<"v","h">>) -> Tok(<<"h","v">>)
    [] tok = Tok(<<"h","v">>) -> Tok(<<"v","h">>)
    [] OTHER -> tok

HasAlias == Alias(call.tok) # call.tok

\* the same request with the alias token in place of its own
AliasResult ==
  vec_printf_d([call.info EXCEPT !.user = HostUserBits(Alias(call.tok))],
               call.vec)

C2_AliasEquivalence ==
  (call.fn = "vec_printf_d" /\ call.info.spec \in IntConvs /\ HasAlias) =>
    /\ AliasResult.ret = call.ret
    /\ Text(AliasResult.writes) = Text(writes)

C2_Witness ==
  /\ Handled
  /\ call.tok = Tok(<<"l","v">>)
  /\ call.info.spec = Ord["x"]
  /\ call.info.alt
  /\ call.info.user # HostUserBits(Alias(call.tok))
  /\ Len(Text(writes)) > 0

(***************************************************************************)
(* C3: with modifier v, conversion c writes the 16 characters with no      *)
(* separator anywhere, and conversion d writes, for the same vector, 16    *)
(* decimal values with exactly one space between consecutive ones.         *)
(***************************************************************************)
\* the same request with conversion d
AsDecimal == vec_printf_d([call.info EXCEPT !.spec = Ord["d"]], call.vec)

C3_CharNoSeparator ==
  (call.fn = "vec_printf_d" /\ call.tok = Tok(<<"v">>)) =>
    /\ call.info.spec = Ord["c"] =>
         /\ call.ret = 0
         /\ Len(writes) = 16
         /\ \A k \in 1..Len(writes) : FprintfAt(k)
         /\ call.info.width = 0 => Text(writes) = call.vec
         /\ AsDecimal.ret = 0
         /\ Len(SelectSeq(AsDecimal.writes, LAMBDA w : w.op = "fputs")) = 15
    /\ call.info.spec = Ord["d"] =>
         /\ call.ret = 0
         /\ Alternating(16)

C3_Witness ==
  /\ Handled
  /\ call.tok = Tok(<<"v">>)
  /\ call.info.spec = Ord["c"]
  /\ call.info.width = 0
  /\ Text(writes) = << 255, 255, 255, 255, 0, 0, 0, 0, 0, 0, 0, 39, 127, 255,
                       255, 255 >>
  /\ Len(AsDecimal.writes) = 31

(***************************************************************************)
(* C4: a handled request whose conversion is not c writes N = 16 /         *)
(* element_size elements and N - 1 single spaces, strictly alternating,    *)
(* and nothing after the last element.                                     *)
(***************************************************************************)
C4_ElementsAndSeparators ==
  (Handled /\ call.info.spec # Ord["c"]) =>
    /\ RowsFor(FamilyTable, call.info.spec, call.tok) # {}
    /\ \A k \in RowsFor(FamilyTable, call.info.spec, call.tok) :
         Alternating(LIBVECTOR_VECTOR_WIDTH_BYTES \div FamilyTable[k].element_size)

C4_Witness ==
  /\ Handled
  /\ call.fn = "vec_printf_f"
  /\ call.tok = Tok(<<"v","v">>)
  /\ Len(writes) = 3
  /\ SpaceAt(2)

(***************************************************************************)
(* C5: a callback that returns the declined status -2 has written nothing  *)
(* to the stream during the call.                                          *)
(***************************************************************************)
C5_DeclinedWritesNothing == Declined => writes = <<>>

C5_Witness ==
  /\ Declined
  /\ call.fn = "vec_printf_d"
  /\ call.tok = Tok(<<"v","v">>)
  /\ call.info.user # 0

(***************************************************************************)
(* C6: a request is handled (status 0) exactly when its (conversion,       *)
(* modifier) combination has a row in the family's table, and is declined  *)
(* (status -2, nothing formatted) otherwise; an integer conversion with    *)
(* vv, a float conversion with vl, lv, vh or hv, and c with a modifier     *)
(* other than v are declined.                                              *)
(***************************************************************************)
C6_DeclinedWithoutRule ==
  Dispatched =>
    /\ call.ret \in {0, -2}
    /\ call.ret = 0 <=> RowsFor(FamilyTable, call.info.spec, call.tok) # {}
    /\ (call.fn = "vec_printf_d" /\ call.tok = Tok(<<"v","v">>)) => Declined
    /\ (call.fn = "vec_printf_f"
          /\ call.tok \in {Tok(<<"v","l">>), Tok(<<"l","v">>),
                           Tok(<<"v","h">>), Tok(<<"h","v">>)}) => Declined
    /\ (call.info.spec = Ord["c"] /\ call.tok # Tok(<<"v">>)) => Declined

C6_Witness ==
  /\ Declined
  /\ call.info.spec = Ord["c"]
  /\ call.tok = Tok(<<"v","l">>)
  /\ call.info.user # 0

(***************************************************************************)
(* C7: when the six modifiers hold distinct handle bits and the request    *)
(* carries one modifier, exactly one row of the family's table matches a   *)
(* supported (conversion, token) pair, and the rows of alias tokens for    *)
(* the same conversion carry the same suffix, element size and kind.       *)
(***************************************************************************)
IsBit(b) == \E n \in 0..(USER_BITS - 1) : b = Pow2(n)

DistinctHandles ==
  /\ \A i \in 1..vector_mods_len : IsBit(vector_mods[i])
  /\ \A i, j \in 1..vector_mods_len : i # j => vector_mods[i] # vector_mods[j]

\* the rows the scan's test accepts for the request
Matching(table, info) ==
  { k \in 1..Len(table) :
      /\ info.spec = table[k].spec
      /\ BitAnd(info.user, vector_mods[table[k].bits_index + 1]) # 0 }

Payload(row) == << row.mod_and_spec, row.element_size, row.data_type >>

C7_OneRulePerPair ==
  (Dispatched /\ DistinctHandles
     /\ RowsFor(FamilyTable, call.info.spec, call.tok) # {}) =>
    /\ Cardinality(Matching(FamilyTable, call.info)) = 1
    /\ Matching(FamilyTable, call.info)
         = RowsFor(FamilyTable, call.info.spec, call.tok)
    /\ HasAlias =>
         /\ RowsFor(FamilyTable, call.info.spec, Alias(call.tok)) # {}
         /\ \A k \in RowsFor(FamilyTable, call.info.spec, call.tok),
               j \in RowsFor(FamilyTable, call.info.spec, Alias(call.tok)) :
              Payload(FamilyTable[k]) = Payload(FamilyTable[j])

C7_Witness ==
  /\ Handled
  /\ DistinctHandles
  /\ call.tok = Tok(<<"h","v">>)
  /\ call.info.spec = Ord["o"]
  /\ Matching(FamilyTable, call.info) = {14}

(***************************************************************************)
(* C8: every float conversion f F e E g G a A with modifier v resolves to  *)
(* 4 float elements of 4 bytes and with vv to 2 double elements of 8       *)
(* bytes; none of the sixteen combinations is declined.                    *)
(***************************************************************************)
FprintfArgs == SelectSeq(writes, LAMBDA w : w.op = "fprintf")

C8_AllFloatConversions ==
  (call.fn = "vec_printf_f" /\ call.info.spec \in FpConvs
     /\ call.tok \in {Tok(<<"v">>), Tok(<<"v","v">>)}) =>
    /\ call.ret = 0
    /\ call.tok = Tok(<<"v">>) =>
         /\ Len(FprintfArgs) = 4
         /\ \A k \in 1..Len(FprintfArgs) :
              FprintfArgs[k].arg = DoubleArg(ElemBytes(call.vec, 4, k - 1))
    /\ call.tok = Tok(<<"v","v">>) =>
         /\ Len(FprintfArgs) = 2
         /\ \A k \in 1..Len(FprintfArgs) :
              FprintfArgs[k].arg = DoubleArg(ElemBytes(call.vec, 8, k - 1))

(***************************************************************************)
(* C9: a handled request formats 16 one-byte elements for v with an        *)
(* integer or c conversion, 4 four-byte float elements for v with a float  *)
(* conversion, 4 four-byte integers for vl/lv, 8 two-byte integers for     *)
(* vh/hv and 2 eight-byte doubles for vv; count times size is 16.          *)
(***************************************************************************)
\* the element size the token stands for, by family
SurfaceSize ==
  CASE call.tok = Tok(<<"v">>) /\ call.fn = "vec_printf_d" -> 1
    [] call.tok = Tok(<<"v">>) /\ call.fn = "vec_printf_f" -> 4
    [] call.tok \in {Tok(<<"v","l">>), Tok(<<"l","v">>)} -> 4
    [] call.tok \in {Tok(<<"v","h">>), Tok(<<"h","v">>)} -> 2
    [] call.tok = Tok(<<"v","v">>) -> 8
    [] OTHER -> 0

SurfaceCount ==
  CASE call.tok = Tok(<<"v">>) /\ call.fn = "vec_printf_d" -> 16
    [] call.tok = Tok(<<"v">>) /\ call.fn = "vec_printf_f" -> 4
    [] call.tok \in {Tok(<<"v","l">>), Tok(<<"l","v">>)} -> 4
    [] call.tok \in {Tok(<<"v","h">>), Tok(<<"h","v">>)} -> 8
    [] call.tok = Tok(<<"v","v">>) -> 2
    [] OTHER -> 0

\* the bytes of the formatted value that come from the element
ElementPart(arg, size) ==
  IF arg.kind = "int" THEN SubSeq(arg.bytes, 5 - size, 4) ELSE arg.bytes

C9_TokenSurface ==
  Handled =>
    /\ SurfaceSize # 0
    /\ call.tok \in {Tok(<<"v","l">>), Tok(<<"l","v">>), Tok(<<"v","h">>),
                     Tok(<<"h","v">>)} => call.fn = "vec_printf_d"
    /\ call.tok = Tok(<<"v","v">>) => call.fn = "vec_printf_f"
    /\ Len(FprintfArgs) = SurfaceCount
    /\ SurfaceCount * SurfaceSize = LIBVECTOR_VECTOR_WIDTH_BYTES
    /\ \A k \in 1..Len(FprintfArgs) :
         /\ FprintfArgs[k].arg.kind
              = (IF call.fn = "vec_printf_d" THEN "int" ELSE "double")
         /\ ElementPart(FprintfArgs[k].arg, SurfaceSize)
              = ElemBytes(call.vec, SurfaceSize, k - 1)

C9_Witness ==
  /\ Handled
  /\ call.tok = Tok(<<"v","h">>)
  /\ call.info.spec = Ord["d"]
  /\ Len(FprintfArgs) = 8
  /\ FprintfArgs[2].arg.bytes # FprintfArgs[3].arg.bytes

(***************************************************************************)
(* C10: a request with modifier vz or zv and an integer conversion is      *)
(* handled by writing exactly two formatted 8-byte halves with no          *)
(* separator, the high half first on a little-endian platform (memory      *)
(* index 1, then 0) and in memory order on a big-endian one.               *)
(***************************************************************************)
\* the 8 bytes of half i of the image, as the unsigned long long at index i
Half(vec, i) == ElemBytes(vec, 8, i)

C10_Int128Halves ==
  (call.fn = "vec_printf_d" /\ call.info.spec \in IntConvs
     /\ call.tok \in {Tok(<<"v","z">>), Tok(<<"z","v">>)}) =>
    /\ call.ret = 0
    /\ Len(writes) = 2
    /\ \A k \in 1..Len(writes) : FprintfAt(k)
    /\ Len(writes) = 2 =>
         /\ writes[1].arg.bytes
              = Half(call.vec, IF little_endian THEN 1 ELSE 0)
         /\ writes[2].arg.bytes
              = Half(call.vec, IF little_endian THEN 0 ELSE 1)

(***************************************************************************)
(* C11: in the format string synthesized for a handled request the flag    *)
(* characters stand immediately after % in the order # space - + ', each   *)
(* present exactly when its flag is set and at most once.                  *)
(***************************************************************************)
\* the format string of the current call: the one its first fprintf got
FmtStr == writes[1].fmt

\* the position of the first * of a format string, its width placeholder
StarPos(fmt) ==
  CHOOSE p \in 1..Len(fmt) :
    fmt[p] = Ord["*"] /\ \A q \in 1..(p - 1) : fmt[q] # Ord["*"]

\* the characters between % and the width placeholder
FlagPart(fmt) == SubSeq(fmt, 2, StarPos(fmt) - 1)

\* the request's flag that a flag character stands for
FlagOf(info, c) ==
  CASE c = Ord["#"] -> info.alt
    [] c = Ord[" "] -> info.space
    [] c = Ord["-"] -> info.left
    [] c = Ord["+"] -> info.showsign
    [] c = Ord["'"] -> info.group
    [] OTHER -> FALSE

FlagOrder == << Ord["#"], Ord[" "], Ord["-"], Ord["+"], Ord["'"] >>

C11_FlagOrder ==
  Handled =>
    /\ FmtStr[1] = Ord["%"]
    /\ \E p \in 1..Len(FmtStr) : FmtStr[p] = Ord["*"]
    /\ SelectSeq(FlagPart(FmtStr), LAMBDA c : c # Ord["0"])
         = SelectSeq(FlagOrder, LAMBDA c : FlagOf(call.info, c))
    /\ \A k \in Elements : writes[k].fmt = FmtStr

C11_Witness ==
  /\ Handled
  /\ call.info.alt /\ call.info.space /\ call.info.left
  /\ call.info.showsign /\ call.info.group
  /\ FmtStr = Str(<<"%", "#", " ", "-", "+", "'", "*", ".", "*", "d">>)

(***************************************************************************)
(* C12: the format string holds the flag 0 exactly when the request's pad  *)
(* character is 0 and left-justify is not set; when present, 0 is the last *)
(* flag character, directly before the width placeholder.                  *)
(***************************************************************************)
C12_ZeroPad ==
  Handled =>
    LET fp == FlagPart(FmtStr)
    IN /\ (\E k \in 1..Len(fp) : fp[k] = Ord["0"])
            <=> (call.info.pad = Ord["0"] /\ ~call.info.left)
       /\ call.info.left => \A k \in 1..Len(FmtStr) : FmtStr[k] # Ord["0"]
       /\ \A k \in 1..Len(fp) : fp[k] = Ord["0"] => k = Len(fp)

C12_Witness ==
  /\ Handled
  /\ call.info.pad = Ord["0"]
  /\ ~call.info.left
  /\ call.info.showsign /\ call.info.alt
  /\ FmtStr = Str(<<"%", "#", "+", "0", "*", ".", "*", "h", "x">>)

(***************************************************************************)
(* C13: for every flag combination and every rule the format string is at  *)
(* most 16 characters long, fits with its terminator in the buffer of      *)
(* FMT_STR_MAXLEN characters and ends with the rule's full scalar suffix.  *)
(***************************************************************************)
EndsWith(s, suffix) ==
  /\ Len(suffix) <= Len(s)
  /\ SubSeq(s, Len(s) - Len(suffix) + 1, Len(s)) = suffix

C13_FormatFits ==
  Handled =>
    /\ Len(FmtStr) <= 16
    /\ Len(FmtStr) + 1 <= FMT_STR_MAXLEN
    /\ \A k \in RowsFor(FamilyTable, call.info.spec, call.tok) :
         /\ EndsWith(FmtStr, FamilyTable[k].mod_and_spec)
         /\ StarPos(FmtStr) + 2 + Len(FamilyTable[k].mod_and_spec) = Len(FmtStr)

C13_Witness ==
  /\ Handled
  /\ Len(FmtStr) = 12
  /\ EndsWith(FmtStr, Str(<<"h", "h", "d">>))
  /\ call.info.pad = Ord["0"]

(***************************************************************************)
(* C14: the handle bits of each modifier and the argument-type handle are  *)
(* written by the initialization only, each once; once it has completed,   *)
(* no call of vec_ais, vec_printf_d or vec_printf_f, handled or declined,  *)
(* changes them, so they stay the handles the host returned.               *)
(***************************************************************************)
\* how far __register_printf_vec has got
RegRank(pc) ==
  CASE pc.at = "type" -> 0
    [] pc.at = "mods" -> 1 + pc.i
    [] pc.at = "specs" -> 1 + vector_mods_len + pc.i
    [] OTHER -> 1 + vector_mods_len + Len(specifier_calls)

\* the handles initialization stored are the ones the host gave out
HandlesAsRegistered ==
  /\ \A i \in 1..vector_mods_len :
       vector_mods[i] = HostUserBits(modifier_strings[i])
  /\ printf_argtype_vec = 8
  /\ host_types = << "vec_va" >>

C14_StepFrame ==
  /\ RegRank(reg_pc') >= RegRank(reg_pc)
  /\ \A i \in 1..vector_mods_len :
       vector_mods'[i] # vector_mods[i] =>
         /\ RegRank(reg_pc) = i
         /\ RegRank(reg_pc') = i + 1
  /\ printf_argtype_vec' # printf_argtype_vec =>
       /\ RegRank(reg_pc) = 0
       /\ RegRank(reg_pc') = 1
  /\ reg_pc.at = "done" =>
       /\ UNCHANGED << vector_mods, printf_argtype_vec, reg_pc >>
       /\ HandlesAsRegistered
       /\ HandlesAsRegistered'
  /\ call' # call => UNCHANGED statics

C14_WrittenOnceThenFrozen == [][C14_StepFrame]_vars

C14_Witness ==
  /\ reg_pc.at = "done"
  /\ Declined
  /\ call.info.user # 0
  /\ HandlesAsRegistered
  /\ \A i \in 1..vector_mods_len : vector_mods[i] # BITS_PLACEHOLDER

(***************************************************************************)
(* C15: once initialization has completed, dispatch calls that run on      *)
(* different threads at the same time, each on its own stream and          *)
(* interleaved statement by statement, each return the status and write    *)
(* the text of the same call run alone; a step of one call changes neither *)
(* the statics nor anything another call reads.                            *)
(***************************************************************************)
\* the same call run alone, from entry to return
Alone(th) ==
  IF th.fn = "vec_printf_d" THEN vec_printf_d(th.info, th.vec)
  ELSE vec_printf_f(th.info, th.vec)

IsPrefix(s, w) == Len(s) <= Len(w) /\ s = SubSeq(w, 1, Len(s))

\* the call on thread t goes the way of the call run alone
AsAlone(th) ==
  /\ th.pc \in {"scan", "gen", "elem", "sep"} =>
       /\ IsPrefix(th.stream, Alone(th).writes)
       /\ th.pc \in {"gen", "elem", "sep"} => Alone(th).ret = 0
  /\ th.pc = "done" =>
       /\ th.ret = Alone(th).ret
       /\ th.stream = Alone(th).writes
       /\ Text(th.stream) = Text(Alone(th).writes)

C15_StepThreads ==
  /\ \A t \in Threads : AsAlone(threads'[t])
  /\ threads' # threads =>
       /\ UNCHANGED statics
       /\ Cardinality({ t \in Threads : threads'[t] # threads[t] }) = 1

C15_ConcurrentAsAlone == [][C15_StepThreads]_vars

C15_Witness ==
  /\ threads[1].pc = "done"
  /\ threads[1].ret = 0
  /\ Len(threads[1].stream) = 7
  /\ threads[2].pc = "elem"
  /\ threads[2].i = 2
  /\ threads[2].fmt_str # threads[1].fmt_str
  /\ threads[2].stream # <<>>

(***************************************************************************)
(* C16: two dispatch calls given the same conversion character, modifier   *)
(* bits, flags, width, precision and vector bytes, against the same        *)
(* initialized tables, return the same status and write the same text.     *)
(***************************************************************************)
SameInputs(a, b) ==
  /\ a.fn = b.fn
  /\ a.info = b.info
  /\ a.vec = b.vec

C16_Deterministic ==
  \A t, u \in Threads :
    (threads[t].pc = "done" /\ threads[u].pc = "done"
       /\ SameInputs(threads[t], threads[u])) =>
      /\ threads[t].ret = threads[u].ret
      /\ Text(threads[t].stream) = Text(threads[u].stream)

C16_Witness ==
  /\ threads[1].pc = "done"
  /\ threads[2].pc = "done"
  /\ SameInputs(threads[1], threads[2])
  /\ threads[1].ret = 0
  /\ threads[1].fn = "vec_printf_f"
  /\ Len(Text(threads[2].stream)) > 4

(***************************************************************************)
(* C17: when the registration of one modifier token fails, no request      *)
(* resolves to a rule through that token's table rows, and a request that  *)
(* carries another, registered modifier resolves to the row it resolves to *)
(* when every registration succeeds.                                       *)
(***************************************************************************)
\* the registration of the token at position i returned -1
Failed(i) == vector_mods[i] = ToUShort(-1)

\* the row the scan of the current call stopped at, 0-based, -1 for none
Resolved == find_entry(FamilyTable, call.info, 0)

\* the row the request resolves to when all six handles are distinct bits
ResolvedAllRegistered ==
  LET rows == RowsFor(FamilyTable, call.info.spec, call.tok)
  IN IF rows = {} THEN -1 ELSE (CHOOSE k \in rows : TRUE) - 1

C17_FailedModifierUnrecognized ==
  (reg_pc.at = "done" /\ Dispatched) =>
    \A i \in 1..vector_mods_len :
      Failed(i) =>
        /\ Resolved # -1 => FamilyTable[Resolved + 1].bits_index # i - 1
        /\ (call.info.user # 0 /\ call.tok # modifier_strings[i]) =>
             Resolved = ResolvedAllRegistered

(***************************************************************************)
(* C18: initialization registers each of the tokens vl, lv, vh, hv, v, vv  *)
(* exactly once and stores the returned handle in that token's entry,      *)
(* registers one vector-argument copy callback, and registers a dispatch   *)
(* callback for each of the fifteen conversion characters: vec_printf_d    *)
(* for d i o u x X c and vec_printf_f for f F e E g G a A.                 *)
(***************************************************************************)
RegistrationsOf(tok) == { m \in host_modifiers : m.str = tok }

C18_InitRegistersAll ==
  reg_pc.at = "done" =>
    /\ modifier_strings
         = << Tok(<<"v","l">>), Tok(<<"l","v">>), Tok(<<"v","h">>),
              Tok(<<"h","v">>), Tok(<<"v">>), Tok(<<"v","v">>) >>
    /\ \A i \in 1..vector_mods_len :
         /\ Cardinality(RegistrationsOf(modifier_strings[i])) = 1
         /\ \A m \in RegistrationsOf(modifier_strings[i]) :
              vector_mods[i] = m.bit
    /\ host_types = << "vec_va" >>
    /\ \A c \in IntConvs \cup {Ord["c"]} :
         [spec |-> c, fn |-> "vec_printf_d", arginfo |-> "vec_ais"]
           \in host_specifiers
    /\ \A c \in FpConvs :
         [spec |-> c, fn |-> "vec_printf_f", arginfo |-> "vec_ais"]
           \in host_specifiers
    /\ Cardinality(host_specifiers) = 15

C18_Witness ==
  /\ reg_pc.at = "done"
  /\ call.fn = "none"
  /\ Cardinality(host_specifiers) = 15
  /\ vector_mods[6] # BITS_PLACEHOLDER
  /\ vector_mods[6] = HostUserBits(Tok(<<"v","v">>))

(***************************************************************************)
(* C19: a handled request of N elements whose formatted elements are each  *)
(* at most W characters long writes at most N * W + N - 1 characters in    *)
(* all, which is at most N * (W + 1).                                      *)
(***************************************************************************)
\* one pass over the writes of a call: the characters written in all, and
\* the length of the longest formatted element
RECURSIVE Measure(_, _)
Measure(ws, k) ==
  IF k > Len(ws) THEN [total |-> 0, widest |-> 0]
  ELSE LET n == Len(Render(ws[k]))
           rest == Measure(ws, k + 1)
       IN [total |-> n + rest.total,
           widest |-> IF ws[k].op = "fprintf" /\ n > rest.widest
                      THEN n ELSE rest.widest]

C19_TotalLength ==
  Handled =>
    LET m == Measure(writes, 1)
        N == Cardinality(Elements)
        W == m.widest
    IN /\ N = LIBVECTOR_VECTOR_WIDTH_BYTES \div SurfaceSize
       /\ m.total <= N * W + N - 1
       /\ m.total <= N * (W + 1)

C19_Witness ==
  /\ Handled
  /\ call.fn = "vec_printf_d"
  /\ Cardinality(Elements) = 8
  /\ Measure(writes, 1).widest = 6
  /\ Len(Text(writes)) = 8 * 6 + 8 - 1

(***************************************************************************)
(* C20: round trip.  For an integer conversion d i o u x X with vl, lv,    *)
(* vh, hv or v and no flags, width or precision, the written text split at *)
(* the separators and parsed piece by piece with the inverse of the scalar *)
(* formatter gives N values, equal to the vector's elements in order.      *)
(***************************************************************************)
\* the pieces of a text between its spaces
RECURSIVE SplitAt(_, _, _)
SplitAt(s, k, cur) ==
  IF k > Len(s) THEN << cur >>
  ELSE IF s[k] = Ord[" "] THEN << cur >> \o SplitAt(s, k + 1, <<>>)
  ELSE SplitAt(s, k + 1, Append(cur, s[k]))

Split(s) == SplitAt(s, 1, <<>>)

\* the value of a digit character, -1 for any other character
DigitVal(c) ==
  IF c \in 48..57 THEN c - 48
  ELSE IF c \in 97..102 THEN c - 97 + 10
  ELSE IF c \in 65..70 THEN c - 65 + 10
  ELSE -1

\* msb * base + carry over the bytes 1..k, high byte first, modulo 2^32
RECURSIVE MulAdd(_, _, _, _)
MulAdd(msb, base, carry, k) ==
  IF k = 0 THEN <<>>
  ELSE LET v == msb[k] * base + carry
       IN MulAdd(msb, base, v \div 256, k - 1) \o << v % 256 >>

\* the number the digits k.. of the piece add to acc
RECURSIVE ParseMagnitude(_, _, _, _)
ParseMagnitude(piece, base, k, acc) ==
  IF k > Len(piece) THEN acc
  ELSE ParseMagnitude(piece, base, k + 1,
                      MulAdd(acc, base, DigitVal(piece[k]), Len(acc)))

BaseOf(conv) ==
  IF conv = Ord["o"] THEN 8
  ELSE IF conv \in {Ord["x"], Ord["X"]} THEN 16 ELSE 10

\* the inverse of the scalar formatter for the conversion: the 32-bit value
\* read from the piece, and whether the piece is a number of that conversion
ParseInteger(piece, conv) ==
  LET neg == piece # <<>> /\ piece[1] = Ord["-"]
      body == IF neg THEN Tail(piece) ELSE piece
      mag == ParseMagnitude(body, BaseOf(conv), 1, << 0, 0, 0, 0 >>)
  IN [ok |-> /\ body # <<>>
             /\ neg => conv \in {Ord["d"], Ord["i"]}
             /\ \A k \in 1..Len(body) :
                  DigitVal(body[k]) \in 0..(BaseOf(conv) - 1),
      bytes |-> IF neg THEN Negate(mag, 1).b ELSE mag]

\* element i of the vector as a value of the conversion's signedness
OriginalElement(conv, vec, size, i) ==
  IF conv \in {Ord["d"], Ord["i"]} THEN SignExtend(ElemBytes(vec, size, i))
  ELSE ZeroExtend(ElemBytes(vec, size, i))

NoFlags(info) ==
  /\ ~info.alt /\ ~info.space /\ ~info.left /\ ~info.showsign /\ ~info.group
  /\ info.pad # Ord["0"]
  /\ info.width = 0
  /\ info.prec = -1

C20_RoundTrip ==
  (call.fn = "vec_printf_d" /\ call.info.spec \in IntConvs /\ NoFlags(call.info)
     /\ call.tok \in {Tok(<<"v","l">>), Tok(<<"l","v">>), Tok(<<"v","h">>),
                      Tok(<<"h","v">>), Tok(<<"v">>)}) =>
    LET pieces == Split(Text(writes))
        N == LIBVECTOR_VECTOR_WIDTH_BYTES \div SurfaceSize
    IN /\ call.ret = 0
       /\ Len(pieces) = N
       /\ \A k \in 1..Len(pieces) :
            /\ ParseInteger(pieces[k], call.info.spec).ok
            /\ ParseInteger(pieces[k], call.info.spec).bytes
                 = OriginalElement(call.info.spec, call.vec, SurfaceSize, k - 1)

C20_Witness ==
  /\ Handled
  /\ NoFlags(call.info)
  /\ call.tok = Tok(<<"h","v">>)
  /\ call.info.spec = Ord["i"]
  /\ LET pieces == Split(Text(writes))
     IN /\ Len(pieces) = 8
        /\ \E k \in 1..Len(pieces) : Head(pieces[k]) = Ord["-"]
        /\ \E k \in 1..Len(pieces) : Len(pieces[k]) = 5

(***************************************************************************)
(* C21: the vector of the unsigned words 4294967295, 0, 39, 2147483647     *)
(* with modifier vl or lv and conversion u, no flags, width or precision,  *)
(* is handled and writes exactly "4294967295 0 39 2147483647".             *)
(***************************************************************************)
\* UINT32_TEST_VECTOR as it lies in memory
UINT32_TEST_VECTOR == ImageOf(TestVectors[1], 4)

\* the characters of "4294967295 0 39 2147483647"
UINT32_TEXT ==
  << 52, 50, 57, 52, 57, 54, 55, 50, 57, 53, 32, 48, 32,
     51, 57, 32, 50, 49, 52, 55, 52, 56, 51, 54, 52, 55 >>

C21_WordExample ==
  (call.fn = "vec_printf_d" /\ call.info.spec = Ord["u"]
     /\ call.tok \in {Tok(<<"v","l">>), Tok(<<"l","v">>)}
     /\ NoFlags(call.info) /\ call.vec = UINT32_TEST_VECTOR) =>
    /\ call.ret = 0
    /\ Text(writes) = UINT32_TEXT

C21_Witness ==
  /\ Handled
  /\ little_endian
  /\ call.info.spec = Ord["u"]
  /\ call.tok = Tok(<<"l","v">>)
  /\ NoFlags(call.info)
  /\ call.vec = UINT32_TEST_VECTOR
  /\ call.vec # TestVectors[1]
  /\ Len(Text(writes)) = 26

(***************************************************************************)
(* C22: a handled request formats the elements in memory order, each once: *)
(* the k-th value handed to the formatter, k = 0 .. N - 1, is made of the  *)
(* bytes k * element_size .. (k + 1) * element_size - 1 of the image.      *)
(***************************************************************************)
\* the bytes of a value, most significant first, as they lie in memory
InMemory(msb) == IF little_endian THEN Reverse(msb) ELSE msb

\* the element size of the rule the current call resolved to
RuleSize == FamilyTable[Resolved + 1].element_size

C22_MemoryOrder ==
  Handled =>
    LET size == RuleSize
        N == LIBVECTOR_VECTOR_WIDTH_BYTES \div size
        args == FprintfArgs
    IN /\ Len(args) = N
       /\ N * size = Len(call.vec)
       /\ \A k \in 0..(N - 1) :
            InMemory(ElementPart(args[k + 1].arg, size))
              = SubSeq(call.vec, k * size + 1, (k + 1) * size)
       /\ \A b \in 1..Len(call.vec) :
            call.vec[b]
              = InMemory(ElementPart(args[((b - 1) \div size) + 1].arg, size))
                  [((b - 1) % size) + 1]

C22_Witness ==
  /\ Handled
  /\ little_endian
  /\ call.tok = Tok(<<"v">>)
  /\ call.info.spec = Ord["x"]
  /\ Len(FprintfArgs) = 16
  /\ FprintfArgs[11].arg.bytes # FprintfArgs[12].arg.bytes
  /\ FprintfArgs[12].arg.bytes = << 0, 0, 0, call.vec[12] >>

(***************************************************************************)
(* C23: the rule a dispatch call uses is the lowest-index row of the       *)
(* family's table whose conversion character is the request's and whose    *)
(* modifier handle shares a bit with the request's modifier bits; when the *)
(* request carries the bits of several modifiers that row alone decides    *)
(* element size, kind and suffix.  With no such row the call is declined.  *)
(***************************************************************************)
\* the least member of a nonempty set of numbers
MinOf(S) == CHOOSE w \in S : \A v \in S : w <= v

\* how many of the six handles share a bit with the mask
HandlesIn(user) ==
  Cardinality({ i \in 1..vector_mods_len : BitAnd(user, vector_mods[i]) # 0 })

C23_FirstMatch ==
  Dispatched =>
    LET M == Matching(FamilyTable, call.info)
    IN /\ M = {} => (call.ret = -2 /\ writes = <<>>)
       /\ M # {} =>
            LET rule == FamilyTable[MinOf(M)]
                N == LIBVECTOR_VECTOR_WIDTH_BYTES \div rule.element_size
            IN /\ call.ret = 0
               /\ Len(FprintfArgs) = N
               /\ \A k \in 1..Len(FprintfArgs) :
                    /\ EndsWith(FprintfArgs[k].fmt, rule.mod_and_spec)
                    /\ FprintfArgs[k].arg.kind
                         = TypedElement(rule.data_type, call.vec, k - 1).kind
                    /\ ElementPart(FprintfArgs[k].arg, rule.element_size)
                         = ElemBytes(call.vec, rule.element_size, k - 1)
               /\ Text(writes) = ExpectedText(rule, call.info, call.vec)

C23_Witness ==
  /\ Handled
  /\ call.info.spec = Ord["d"]
  /\ HandlesIn(call.info.user) = 3
  /\ BitAnd(call.info.user, vector_mods[1]) = 0
  /\ Cardinality(Matching(FamilyTable, call.info)) = 3
  /\ MinOf(Matching(FamilyTable, call.info)) = 2
  /\ Len(FprintfArgs) = 4

(***************************************************************************)
(* C24: whether or not the request has a width or a precision, the format  *)
(* string is %, flags, *.*, the rule's suffix, with one width and one      *)
(* precision placeholder after the flags and before the suffix; the        *)
(* request's width and precision, -1 for no precision, are the arguments   *)
(* of the placeholders with every one of the N elements.                   *)
(***************************************************************************)
\* how often a character occurs in a string
Count(s, c) == Cardinality({ k \in 1..Len(s) : s[k] = c })

C24_FormatShape ==
  Handled =>
    LET fmt == FmtStr
        p == StarPos(fmt)
        suffix == FamilyTable[Resolved + 1].mod_and_spec
    IN /\ fmt[1] = Ord["%"]
       /\ \A q \in 2..(p - 1) : fmt[q] \in FlagChars
       /\ SubSeq(fmt, p, p + 2) = Str(<<"*", ".", "*">>)
       /\ SubSeq(fmt, p + 3, Len(fmt)) = suffix
       /\ Count(fmt, Ord["*"]) = 2
       /\ Count(fmt, Ord["."]) = 1
       /\ Count(fmt, Ord["%"]) = 1
       /\ \A k \in Elements :
            /\ writes[k].fmt = fmt
            /\ writes[k].width = call.info.width
            /\ writes[k].prec = call.info.prec

C24_Witness ==
  /\ Handled
  /\ call.info.width = MaxWidth
  /\ call.info.prec = -1
  /\ Len(writes) = 15
  /\ writes[15].prec = -1
  /\ writes[15].width = MaxWidth
  /\ writes[15].fmt = Str(<<"%", "-", "*", ".", "*", "h", "d">>)

(***************************************************************************)
(* C25: every dispatch call terminates: it makes at most 31 comparisons in *)
(* the integer table or 14 in the float table, then at most 16 element     *)
(* writes and 15 separator writes, and returns.                            *)
(***************************************************************************)
\* an upper bound of the steps the call on a thread has left
Work(th) ==
  CASE th.pc = "scan" ->
         (Len(TableOf(th.fn)) - th.j) + 2 + 2 * LIBVECTOR_VECTOR_WIDTH_BYTES
    [] th.pc = "gen" -> 1 + 2 * LIBVECTOR_VECTOR_WIDTH_BYTES
    [] th.pc = "elem" -> 2 * (th.limit - th.i)
    [] th.pc = "sep" -> 2 * (th.limit - th.i) - 1
    [] OTHER -> 0

\* the table comparisons the call on a thread has made
Comparisons(th) ==
  IF th.pc = "scan" \/ th.table_idx = -1 THEN th.j ELSE th.table_idx + 1

WritesOf(th, op) == Len(SelectSeq(th.stream, LAMBDA w : w.op = op))

C25_StepBounded ==
  \A t \in Threads :
    LET th == threads[t]
        next == threads'[t]
    IN /\ Work(next) >= 0
       /\ (next # th /\ th.pc \notin {"idle", "done"}) => Work(next) < Work(th)
       /\ next.pc # "idle" =>
            /\ Comparisons(next)
                 <= (IF next.fn = "vec_printf_d" THEN 31 ELSE 14)
            /\ WritesOf(next, "fprintf") <= 16
            /\ WritesOf(next, "fputs") <= 15
       /\ next.pc = "done" => next.ret \in {0, -2}

C25_Terminates == [][C25_StepBounded]_vars

C25_Witness ==
  /\ threads[1].pc = "done"
  /\ threads[1].ret = 0
  /\ Comparisons(threads[1]) = 30
  /\ WritesOf(threads[1], "fprintf") = 16
  /\ WritesOf(threads[1], "fputs") = 15

(***************************************************************************)
(* C26: for a 16-bit pattern in the elements, a halfword directive prints  *)
(* the pattern's value as a signed 16-bit integer for d and i and as an    *)
(* unsigned one for o, u, x and X, the text of the scalar directive on the *)
(* correctly typed element, although uh is declared signed and sh          *)
(* unsigned.                                                               *)
(***************************************************************************)
\* the element kind a halfword conversion stands for
HalfwordKind(conv) ==
  IF conv \in {Ord["d"], Ord["i"]} THEN VDT_signed_short
  ELSE VDT_unsigned_short

\* the scalar directive %hd, %hu, ... applied to element i, correctly typed
ScalarHalfword(conv, info, vec, i) ==
  HostFprintf(ScalarDirective(info, << Ord["h"], conv >>), 0, 0,
              TypedElement(HalfwordKind(conv), vec, i))

C26_HalfwordValue ==
  (call.fn = "vec_printf_d" /\ call.info.spec \in IntConvs
     /\ call.tok \in {Tok(<<"v","h">>), Tok(<<"h","v">>)}
     /\ NoFlags(call.info)) =>
    LET pieces == Split(Text(writes))
        conv == call.info.spec
    IN /\ call.ret = 0
       /\ Len(pieces) = 8
       /\ \A k \in 1..Len(pieces) :
            /\ pieces[k] = ScalarHalfword(conv, call.info, call.vec, k - 1)
            /\ ParseInteger(pieces[k], conv).ok
            /\ ParseInteger(pieces[k], conv).bytes
                 = OriginalElement(conv, call.vec, 2, k - 1)

C26_Witness ==
  /\ Handled
  /\ call.info.spec = Ord["u"]
  /\ call.tok = Tok(<<"v","h">>)
  /\ FprintfArgs[1].arg.bytes = << 255, 255, 255, 129 >>
  /\ Split(Text(writes))[1] = << 54, 53, 52, 48, 57 >>

(***************************************************************************)
(* C27: vec_printf_f tests int_types_table at the index it found in        *)
(* fp_types_table when it decides on the separator; every index a float    *)
(* lookup can give lies inside int_types_table and is not the c row, so a  *)
(* space is written between every two consecutive float or double          *)
(* elements.                                                               *)
(***************************************************************************)
\* the row of int_types_table that suppresses the separator
IsCharRule(row) ==
  row.data_type = VDT_unsigned_char /\ row.mod_and_spec = Str(<<"c">>)

C27_FloatSeparator ==
  /\ \A idx \in 0..(fp_types_table_len - 1) :
       /\ idx < int_types_table_len
       /\ ~IsCharRule(int_types_table[idx + 1])
  /\ (Handled /\ call.fn = "vec_printf_f") =>
       /\ Resolved \in 0..(fp_types_table_len - 1)
       /\ Resolved < int_types_table_len
       /\ ~IsCharRule(int_types_table[Resolved + 1])
       /\ Alternating(LIBVECTOR_VECTOR_WIDTH_BYTES
                        \div fp_types_table[Resolved + 1].element_size)

C27_Witness ==
  /\ Handled
  /\ call.fn = "vec_printf_f"
  /\ call.info.spec = Ord["A"]
  /\ Resolved = fp_types_table_len - 1
  /\ int_types_table[Resolved + 1].data_type = VDT_unsigned_short
  /\ Len(writes) = 3
  /\ SpaceAt(2)

(***************************************************************************)
(* C28: a directive without a vector modifier (info->user zero) is never   *)
(* handled, for each of the fifteen registered conversion characters and   *)
(* whatever the modifier entries hold, a failed registration's 0xFFFF      *)
(* included: vec_ais returns -1 and the dispatch callback returns -2       *)
(* without writing.                                                        *)
(***************************************************************************)
\* the conversion characters __register_printf_vec registers
RegisteredConvs == { Ord[specifier_calls[k][1]] : k \in 1..Len(specifier_calls) }

C28_NoModifierDeclined ==
  /\ \A conv \in RegisteredConvs :
       LET info == MaskedInfo(0, conv)
           d == vec_printf_d(info, TestVectors[1])
           f == vec_printf_f(info, TestVectors[1])
       IN /\ vec_ais(info) = [ret |-> -1, argtype |-> <<>>, size |-> <<>>]
          /\ d.ret = -2 /\ d.writes = <<>>
          /\ f.ret = -2 /\ f.writes = <<>>
  /\ (call.fn = "vec_ais" /\ call.info.user = 0) =>
       call.ret = -1 /\ call.argtype = <<>> /\ call.size = <<>>
  /\ (Dispatched /\ call.info.user = 0) => call.ret = -2 /\ writes = <<>>

C28_Witness ==
  /\ \E i \in 1..vector_mods_len : Failed(i) /\ call.tok = modifier_strings[i]
  /\ call.fn = "vec_printf_f"
  /\ call.info.spec = Ord["F"]
  /\ call.info.user = 0
  /\ call.ret = -2
  /\ writes = <<>>

(***************************************************************************)
(* C29: vec_ais claims one argument (returns 1, argtype the registered     *)
(* vector type handle, size 16) exactly when info->user has a bit in       *)
(* common with the handle of at least one of the registered modifiers,     *)
(* whatever the conversion character; otherwise it returns -1 and writes   *)
(* neither argtype nor size.  Every request a dispatch callback handles is *)
(* therefore one vec_ais claims.                                           *)
(***************************************************************************)
\* the handles the host gave for the tokens of vector_mods
RegisteredHandles ==
  { m.bit : m \in { h \in host_modifiers :
                      \E i \in 1..vector_mods_len : h.str = modifier_strings[i] } }

Claimed ==
  [ret |-> 1, argtype |-> <<printf_argtype_vec>>,
   size |-> <<LIBVECTOR_VECTOR_WIDTH_BYTES>>]

Unclaimed == [ret |-> -1, argtype |-> <<>>, size |-> <<>>]

C29_ClaimsIffHandleBit ==
  /\ call.fn = "vec_ais" =>
       LET common == \E b \in RegisteredHandles : BitAnd(call.info.user, b) # 0
           result == [ret |-> call.ret, argtype |-> call.argtype,
                      size |-> call.size]
       IN /\ printf_argtype_vec # 0
          /\ host_types = << "vec_va" >>
          /\ common <=> \E i \in 1..vector_mods_len :
                          BitAnd(call.info.user, vector_mods[i]) # 0
          /\ result = IF common THEN Claimed ELSE Unclaimed
          /\ \A conv \in RegisteredConvs :
               vec_ais(MaskedInfo(call.info.user, conv)) = result
  /\ Handled => vec_ais(call.info) = Claimed

C29_Witness ==
  /\ call.fn = "vec_ais"
  /\ call.ret = 1
  /\ call.size = << LIBVECTOR_VECTOR_WIDTH_BYTES >>
  /\ call.info.spec = Ord["c"]
  /\ call.info.user = HostUserBits(PriorModifier(1)) + HostUserBits(Str(<<"v","v">>))
  /\ HostUserBits(PriorModifier(1)) # 0

(***************************************************************************)
(* C30: initialization registers the vector argument type first, then the  *)
(* six modifier tokens, and only then the conversion characters' callbacks; *)
(* so from the moment the host can reach a dispatch or arginfo callback,   *)
(* every modifier entry holds the handle the host returned for its token   *)
(* and none holds its placeholder.                                         *)
(***************************************************************************)
\* every entry of vector_mods holds its token's handle
EntriesResolved ==
  /\ printf_argtype_vec # 0
  /\ host_types = << "vec_va" >>
  /\ \A i \in 1..vector_mods_len :
       /\ RegistrationsOf(modifier_strings[i]) # {}
       /\ vector_mods[i] = HostUserBits(modifier_strings[i])
       /\ vector_mods[i] # BITS_PLACEHOLDER
       /\ vector_mods[i] # 0

C30_StepOrder ==
  /\ host_types' # host_types =>
       /\ \A i \in 1..vector_mods_len : RegistrationsOf(modifier_strings[i]) = {}
       /\ host_specifiers = {}
  /\ host_modifiers' # host_modifiers =>
       /\ host_types = << "vec_va" >>
       /\ host_specifiers = {}
       /\ host_specifiers' = {}
  /\ host_specifiers' # host_specifiers => EntriesResolved /\ EntriesResolved'
  /\ host_specifiers # {} => EntriesResolved /\ UNCHANGED vector_mods
  /\ (call' # call /\ call'.fn # "none") => EntriesResolved

C30_CallbacksAfterHandles == [][C30_StepOrder]_vars

C30_Witness ==
  /\ reg_pc = [at |-> "specs", i |-> 1]
  /\ Cardinality(host_specifiers) = 1
  /\ Handled
  /\ call.tok = Str(<<"v", "h">>)
  /\ Len(writes) = 15
  /\ EntriesResolved

====
